---- MODULE Spec2Model ----
(***************************************************************************)
(* A model of the round engine of praeses-blackjack: the card model, hand  *)
(* valuation (src/src/blackjack.rs), the actors' decision policies         *)
(* (src/src/blackjack/actors/...), and InProgressGame::play_round with the *)
(* deal that precedes it.                                                  *)
(*                                                                         *)
(* A Vec<Card> is a sequence; Vec::pop takes the LAST element, so the top  *)
(* of the deck is deck[Len(deck)].  Players are numbered 1..N in table     *)
(* order (the order of ReadyGame.players); the dealer is not a player.     *)
(***************************************************************************)
EXTENDS Integers, Sequences, FiniteSets, TLC

\* ------------------------------------------------------------------ bounds

\* Largest num_players (human players) of the GameOptions explored.
MaxHumans == 1

\* Length of the shuffled deck a round starts with.
DeckLen == 8

\* Longest hand handed to the decision policies in SpecPolicy.
MaxHandLen == 3

\* Longest hand handed to the valuation functions in SpecValue.
MaxValueHandLen == 4

\* Largest num_decks of the GameOptions in SpecReshuffle.
MaxDecks == 6

\* Longest deck a game of SpecGame starts with.
GameDeckLen == 6

\* Largest betting_buyin of the GameOptions.
MaxBuyin == 2

\* Largest money and largest bet of the player the methods are called on in
\* SpecPlayer.
MaxStake == 10

\* Largest money a player holds in SpecSession: a round that would pay a
\* player beyond it is not played.
MaxMoney == 4

\* ------------------------------------------------------------- card model

\* cards::Rank
Ranks ==
    {"Ace", "Two", "Three", "Four", "Five", "Six", "Seven", "Eight", "Nine",
     "Ten", "Jack", "Queen", "King"}

\* cards::Suit
Suits == {"Club", "Diamond", "Heart", "Spade"}

\* cards::Card
Card == [rank : Ranks, suit : Suits]

\* The cards a deck of the round specification is shuffled from: a bound on
\* the ranks and suits of cards::standard_deck, so that decks can be
\* enumerated.  Ace, Five and Ten give naturals, soft and hard hands, busts,
\* three-card 21s, and hits and stands for every actor.
DeckRanks == {"Ace", "Five", "Ten"}
DeckSuits == {"Spade"}
DeckCards == [rank : DeckRanks, suit : DeckSuits]

\* The cards the decision policies are probed with in SpecPolicy: every rank.
ProbeCards == [rank : Ranks, suit : {"Spade"}]

\* ------------------------------------------------------- hand valuation

card_value(card) ==
    CASE card.rank = "Ace"   -> 1
      [] card.rank = "Two"   -> 2
      [] card.rank = "Three" -> 3
      [] card.rank = "Four"  -> 4
      [] card.rank = "Five"  -> 5
      [] card.rank = "Six"   -> 6
      [] card.rank = "Seven" -> 7
      [] card.rank = "Eight" -> 8
      [] card.rank = "Nine"  -> 9
      [] card.rank = "Ten"   -> 10
      [] card.rank = "Jack"  -> 10
      [] card.rank = "Queen" -> 10
      [] card.rank = "King"  -> 10

RECURSIVE get_raw_hand_value(_)
get_raw_hand_value(hand) ==
    IF hand = <<>> THEN 0
    ELSE card_value(Head(hand)) + get_raw_hand_value(Tail(hand))

\* Fault: an Ace is still counted as 11 at a raw value of 12.
is_soft_hand_up_to_12(raw_value, hand) ==
    raw_value <= 12 /\ \E k \in 1..Len(hand) : hand[k].rank = "Ace"

\* Fault: an Ace is counted as 11 only below a raw value of 11.
is_soft_hand_below_11(raw_value, hand) ==
    raw_value < 11 /\ \E k \in 1..Len(hand) : hand[k].rank = "Ace"

is_soft_hand(raw_value, hand) ==
    raw_value <= 11 /\ \E k \in 1..Len(hand) : hand[k].rank = "Ace"

get_hand_value(hand) ==
    LET raw_value == get_raw_hand_value(hand)
    IN  IF is_soft_hand(raw_value, hand) THEN raw_value + 10 ELSE raw_value

\* Fault: any 21 is taken for a natural.
hand_is_natural_any_length(hand) == get_hand_value(hand) = 21

hand_is_natural(hand) == get_hand_value(hand) = 21 /\ Len(hand) = 2

hand_is_bust(hand) == get_hand_value(hand) > 21

\* The valuation functions of blackjack.rs applied to one hand, as the tests
\* hand_value_correct, detects_naturals and detects_busts apply them.
hand_evaluation(hand) ==
    [done    |-> TRUE,
     raw     |-> get_raw_hand_value(hand),
     soft    |-> is_soft_hand(get_raw_hand_value(hand), hand),
     value   |-> get_hand_value(hand),
     natural |-> hand_is_natural(hand),
     bust    |-> hand_is_bust(hand)]

\* ------------------------------------------------------ decision policies

\* Fault: a dealer that hits a soft 17 (the "H17" house rule).
Dealer_hits_soft_17(hand) ==
    IF get_hand_value(hand) >= 17
       /\ ~(get_hand_value(hand) = 17 /\ is_soft_hand(get_raw_hand_value(hand), hand))
    THEN "Stand" ELSE "Hit"

\* Fault: a dealer that stands from 16 on.
Dealer_stands_on_16(hand) ==
    IF get_hand_value(hand) >= 16 THEN "Stand" ELSE "Hit"

\* Dealer::decide_action: the dealer's fixed policy, from its own hand.
Dealer_decide_action(hand) ==
    IF get_hand_value(hand) >= 17 THEN "Stand" ELSE "Hit"

\* Fault: a bot that stands on a soft 17.
AutoPlayer_stands_soft_17(hand, dealer_upcard) ==
    IF is_soft_hand(get_raw_hand_value(hand), hand)
    THEN IF get_hand_value(hand) >= 17 THEN "Stand" ELSE "Hit"
    ELSE LET stop_at ==
                 CASE dealer_upcard.rank \in
                          {"Ace", "Seven", "Eight", "Nine", "Ten", "Jack",
                           "Queen", "King"} -> 17
                   [] dealer_upcard.rank \in {"Four", "Five", "Six"} -> 12
                   [] dealer_upcard.rank \in {"Two", "Three"} -> 13
         IN  IF get_hand_value(hand) >= stop_at THEN "Stand" ELSE "Hit"

\* Fault: a bot that treats the fair upcards (2, 3) like the poor ones.
AutoPlayer_fair_as_poor(hand, dealer_upcard) ==
    IF is_soft_hand(get_raw_hand_value(hand), hand)
    THEN IF get_hand_value(hand) >= 18 THEN "Stand" ELSE "Hit"
    ELSE LET stop_at ==
                 IF dealer_upcard.rank \in
                        {"Two", "Three", "Four", "Five", "Six"} THEN 12 ELSE 17
         IN  IF get_hand_value(hand) >= stop_at THEN "Stand" ELSE "Hit"

\* AutoPlayer::decide_action: the bot's policy, from its hand and the
\* dealer's upcard.
AutoPlayer_decide_action(hand, dealer_upcard) ==
    IF is_soft_hand(get_raw_hand_value(hand), hand)
    THEN IF get_hand_value(hand) >= 18 THEN "Stand" ELSE "Hit"
    ELSE LET stop_at ==
                 CASE dealer_upcard.rank \in
                          {"Ace", "Seven", "Eight", "Nine", "Ten", "Jack",
                           "Queen", "King"} -> 17
                   [] dealer_upcard.rank \in {"Four", "Five", "Six"} -> 12
                   [] dealer_upcard.rank \in {"Two", "Three"} -> 13
         IN  IF get_hand_value(hand) >= stop_at THEN "Stand" ELSE "Hit"

\* HumanPlayer::decide_action returns whatever valid action the person ends
\* up typing: either one.
HumanPlayer_decide_action == {"Hit", "Stand"}

\* Player::decide_action, dispatched on the kind of player: the set of
\* actions the call can return.
decide_action(kind, hand, dealer_upcard) ==
    IF kind = "bot"
    THEN {AutoPlayer_decide_action(hand, dealer_upcard)}
    ELSE HumanPlayer_decide_action

\* ------------------------------------------------------------------ state

VARIABLES
    players,          \* ReadyGame.players: the kind of each player, in table order
    hands,            \* hands[i]: the hand of player i
    dealer,           \* the dealer's hand
    deck,             \* the shared deck; its top is its last element
    pc,               \* where play_blackjack's round is
    dealt,            \* cards handed out by deal_hands so far
    turn,             \* the player the loop of player_turns is at
    decisions,        \* decisions[i]: the actions decide_action returned to player i
    dealer_decisions, \* the actions the dealer's decide_action returned
    results,          \* the RoundResult returned by play_round
    leftover_deck,    \* the deck returned by play_round
    exit,             \* the function of play_round that returned the results
    start_deck,       \* the deck the round was dealt from
    probe_hand,       \* SpecPolicy: the hand of the actor under test
    probe_upcard,     \* SpecPolicy: the dealer upcard shown to the bot
    probe_bot,        \* SpecPolicy: what AutoPlayer decided
    probe_dealer,     \* SpecPolicy: what the dealer decided
    probe_eval,       \* SpecValue: what the valuation functions returned
    probe_first_run,  \* SpecHidden: the player turns of the first of two runs
    money,            \* money[i]: Player.money of player i, <<>> None, <<n>> Some(n)
    bet,              \* bet[i]: Player.bet of player i, <<>> None, <<n>> Some(n)
    options,          \* the GameOptions play_blackjack was given
    call              \* SpecPlayer: the last method called and what it found

round_vars ==
    <<players, hands, dealer, deck, pc, dealt, turn, decisions,
      dealer_decisions, results, leftover_deck, exit, start_deck>>

probe_vars ==
    <<probe_hand, probe_upcard, probe_bot, probe_dealer, probe_eval,
      probe_first_run>>

money_vars == <<money, bet, options, call>>

vars == <<round_vars, probe_vars, money_vars>>

N == Len(players)

\* ReadyGame::new: the bot (if any) sits first, then the human players.
ReadyGame_new(bot_player, num_players) ==
    (IF bot_player THEN <<"bot">> ELSE <<>>) \o [k \in 1..num_players |-> "human"]

\* cards::create_multideck + cards::shuffle_deck, scaled down: a deck of
\* DeckLen cards of DeckCards in any order (several decks shuffled together
\* hold a card more than once).  A draw on the empty deck panics, as
\* Vec::pop().unwrap() does.
ShuffledDecks == [1..DeckLen -> DeckCards]

\* The call record before any method was called.
NoCall ==
    [op |-> "none", result |-> "none", input |-> <<>>,
     money |-> <<>>, bet |-> <<>>, hand |-> <<>>]

\* The rounds of Spec and the probes are played without betting.
MoneyIdle ==
    /\ money = <<>>
    /\ bet = <<>>
    /\ options = [betting_buyin |-> 0, payout_ratio |-> <<3, 2>>, num_decks |-> 6]
    /\ call = NoCall

\* No first run has been recorded.
NoRun == [done |-> FALSE, decisions |-> <<>>, hands |-> <<>>]

ProbeIdle ==
    /\ probe_first_run = NoRun
    /\ probe_hand = <<>>
    /\ probe_upcard = [rank |-> "Ace", suit |-> "Spade"]
    /\ probe_bot = "none"
    /\ probe_dealer = "none"
    /\ probe_eval = [done |-> FALSE]

Init ==
    /\ \E bot_player \in BOOLEAN, num_players \in 0..MaxHumans :
           players = ReadyGame_new(bot_player, num_players)
    /\ hands = [i \in 1..N |-> <<>>]
    /\ dealer = <<>>
    /\ deck \in ShuffledDecks
    /\ start_deck = deck
    /\ pc = "deal"
    /\ dealt = 0
    /\ turn = 0
    /\ decisions = [i \in 1..N |-> <<>>]
    /\ dealer_decisions = <<>>
    /\ results = <<>>
    /\ leftover_deck = <<>>
    /\ exit = "none"
    /\ ProbeIdle
    /\ MoneyIdle

\* ----------------------------------------------------------------- dealing

\* Vec::pop().unwrap() on the deck: the card on top and the deck without it.
\* Fault: the card handed out is the one at the other end of the deck.
top_is_first(d) == d[1]

\* Fault: the card handed out is the top one, the card removed the bottom one.
pop_removes_bottom(d) == Tail(d)

top(d) == d[Len(d)]
pop(d) == SubSeq(d, 1, Len(d) - 1)

\* The actor the next card of deal_hands goes to: players 1..N, then the
\* dealer (N + 1), twice over.
\* Fault: the dealer is served before the players.
deal_recipient_dealer_first(n, count) == ((count + n) % (n + 1)) + 1

deal_recipient(n, count) == (count % (n + 1)) + 1

\* One card of ReadyGame::deal_hands.  unwrap() on an empty deck panics.
DealCard ==
    /\ pc = "deal"
    /\ IF deck = <<>>
       THEN /\ pc' = "panic"
            /\ UNCHANGED <<hands, dealer, deck, dealt>>
       ELSE /\ deck' = pop(deck)
            /\ LET r == deal_recipient(N, dealt)
               IN  IF r <= N
                   THEN /\ hands' = [hands EXCEPT ![r] = Append(@, top(deck))]
                        /\ UNCHANGED dealer
                   ELSE /\ dealer' = Append(dealer, top(deck))
                        /\ UNCHANGED hands
            /\ dealt' = dealt + 1
            /\ pc' = IF dealt' = 2 * (N + 1) THEN "naturals" ELSE "deal"
    /\ UNCHANGED <<players, turn, decisions, dealer_decisions, results,
                   leftover_deck, exit, start_deck, probe_vars, money_vars>>

\* --------------------------------------------------------------- the round

\* IntermediateRoundResult::Finished { results, leftover_deck }, as returned
\* through play_round.
Finished(round_results, from) ==
    /\ pc' = "finished"
    /\ results' = round_results
    /\ leftover_deck' = deck
    /\ exit' = from

\* Fault: the players' blackjacks are looked at before the dealer's.
handle_naturals_players_first(player_hands, dealer_hand) ==
    IF \A i \in 1..Len(player_hands) : hand_is_natural(player_hands[i])
    THEN [finished |-> TRUE,
          results |-> [i \in 1..Len(player_hands) |->
                          [player |-> i, result |-> "Natural"]]]
    ELSE IF hand_is_natural(dealer_hand)
    THEN [finished |-> TRUE,
          results |-> [i \in 1..Len(player_hands) |->
                          [player |-> i,
                           result |-> IF hand_is_natural(player_hands[i])
                                      THEN "Standoff" ELSE "Lose"]]]
    ELSE [finished |-> FALSE, results |-> <<>>]

\* Fault: no early end when every player has blackjack.
handle_naturals_dealer_only(player_hands, dealer_hand) ==
    IF hand_is_natural(dealer_hand)
    THEN [finished |-> TRUE,
          results |-> [i \in 1..Len(player_hands) |->
                          [player |-> i,
                           result |-> IF hand_is_natural(player_hands[i])
                                      THEN "Standoff" ELSE "Lose"]]]
    ELSE [finished |-> FALSE, results |-> <<>>]

\* Fault: against a dealer blackjack only the players with blackjack are
\* pushed to the results.
handle_naturals_skips_losers(player_hands, dealer_hand) ==
    IF hand_is_natural(dealer_hand)
    THEN [finished |-> TRUE,
          results |-> SelectSeq([i \in 1..Len(player_hands) |->
                                    [player |-> i,
                                     result |-> IF hand_is_natural(player_hands[i])
                                                THEN "Standoff" ELSE "Lose"]],
                                LAMBDA r : r.result = "Standoff")]
    ELSE IF \A i \in 1..Len(player_hands) : hand_is_natural(player_hands[i])
    THEN [finished |-> TRUE,
          results |-> [i \in 1..Len(player_hands) |->
                          [player |-> i, result |-> "Natural"]]]
    ELSE [finished |-> FALSE, results |-> <<>>]

\* Fault: an empty table does not count as a table of naturals.
handle_naturals_needs_a_player(player_hands, dealer_hand) ==
    IF hand_is_natural(dealer_hand)
    THEN [finished |-> TRUE,
          results |-> [i \in 1..Len(player_hands) |->
                          [player |-> i,
                           result |-> IF hand_is_natural(player_hands[i])
                                      THEN "Standoff" ELSE "Lose"]]]
    ELSE IF /\ player_hands # <<>>
            /\ \A i \in 1..Len(player_hands) : hand_is_natural(player_hands[i])
    THEN [finished |-> TRUE,
          results |-> [i \in 1..Len(player_hands) |->
                          [player |-> i, result |-> "Natural"]]]
    ELSE [finished |-> FALSE, results |-> <<>>]

\* InProgressGame::handle_naturals: the results pushed, player by player, and
\* whether the round is Finished.
handle_naturals(player_hands, dealer_hand) ==
    IF hand_is_natural(dealer_hand)
    THEN [finished |-> TRUE,
          results |-> [i \in 1..Len(player_hands) |->
                          [player |-> i,
                           result |-> IF hand_is_natural(player_hands[i])
                                      THEN "Standoff" ELSE "Lose"]]]
    ELSE IF \A i \in 1..Len(player_hands) : hand_is_natural(player_hands[i])
    THEN [finished |-> TRUE,
          results |-> [i \in 1..Len(player_hands) |->
                          [player |-> i, result |-> "Natural"]]]
    ELSE [finished |-> FALSE, results |-> <<>>]

HandleNaturals ==
    /\ pc = "naturals"
    /\ LET r == handle_naturals(hands, dealer)
       IN  IF r.finished
           THEN /\ Finished(r.results, "handle_naturals")
                /\ UNCHANGED turn
           ELSE /\ pc' = "player_turns"
                /\ turn' = 1
                /\ UNCHANGED <<results, leftover_deck, exit>>
    /\ UNCHANGED <<players, hands, dealer, deck, dealt, decisions,
                   dealer_decisions, start_deck, probe_vars, money_vars>>

\* Fault: a player with blackjack takes a turn like any other.
never_skipped(hand) == FALSE

\* InProgressGame::player_turns, `if hand_is_natural(..) { .. continue; }`.
\* (The test is made once, before the player's loop; inside the loop the
\* hand is the same two cards or has three or more, so it reads the same.)
turn_is_skipped(hand) == hand_is_natural(hand)

\* Fault: the loop of a player's turn does not look for a bust.
never_over(hand) == FALSE

\* InProgressGame::player_turns, `if hand_is_bust(..) { .. break; }`.
turn_is_over(hand) == hand_is_bust(hand)

\* InProgressGame::player_turns, a player with blackjack: no turn is taken.
PlayerHasNatural ==
    /\ pc = "player_turns"
    /\ turn <= N
    /\ turn_is_skipped(hands[turn])
    /\ turn' = turn + 1
    /\ UNCHANGED <<players, hands, dealer, deck, pc, dealt, decisions,
                   dealer_decisions, results, leftover_deck, exit, start_deck,
                   probe_vars, money_vars>>

\* Fault: the loop of a turn goes on after a bust instead of breaking.
PlayerIsBust_continues ==
    /\ pc = "player_turns"
    /\ turn <= N
    /\ ~turn_is_skipped(hands[turn])
    /\ turn_is_over(hands[turn])
    /\ UNCHANGED vars

\* InProgressGame::player_turns, the break on a bust hand.
PlayerIsBust ==
    /\ pc = "player_turns"
    /\ turn <= N
    /\ ~turn_is_skipped(hands[turn])
    /\ turn_is_over(hands[turn])
    /\ turn' = turn + 1
    /\ UNCHANGED <<players, hands, dealer, deck, pc, dealt, decisions,
                   dealer_decisions, results, leftover_deck, exit, start_deck,
                   probe_vars, money_vars>>

\* Fault: a Hit on an empty deck passes for a Stand.
PlayerTakeTurn_empty_deck_stands ==
    /\ pc = "player_turns"
    /\ turn <= N
    /\ ~turn_is_skipped(hands[turn])
    /\ ~turn_is_over(hands[turn])
    /\ \E action \in decide_action(players[turn], hands[turn], dealer[2]) :
           /\ decisions' = [decisions EXCEPT ![turn] = Append(@, action)]
           /\ IF action = "Hit" /\ deck # <<>>
              THEN /\ deck' = pop(deck)
                   /\ hands' = [hands EXCEPT ![turn] = Append(@, top(deck))]
                   /\ UNCHANGED <<pc, turn>>
              ELSE /\ turn' = turn + 1
                   /\ UNCHANGED <<hands, deck, pc>>
    /\ UNCHANGED <<players, dealer, dealt, dealer_decisions, results,
                   leftover_deck, exit, start_deck, probe_vars, money_vars>>

\* Fault: the player's policy is shown the dealer's first card.
PlayerTakeTurn_sees_hidden_card ==
    /\ pc = "player_turns"
    /\ turn <= N
    /\ ~turn_is_skipped(hands[turn])
    /\ ~turn_is_over(hands[turn])
    /\ \E action \in decide_action(players[turn], hands[turn], dealer[1]) :
           /\ decisions' = [decisions EXCEPT ![turn] = Append(@, action)]
           /\ IF action = "Hit"
              THEN IF deck = <<>>
                   THEN /\ pc' = "panic"
                        /\ UNCHANGED <<hands, deck, turn>>
                   ELSE /\ deck' = pop(deck)
                        /\ hands' = [hands EXCEPT ![turn] = Append(@, top(deck))]
                        /\ UNCHANGED <<pc, turn>>
              ELSE /\ turn' = turn + 1
                   /\ UNCHANGED <<hands, deck, pc>>
    /\ UNCHANGED <<players, dealer, dealt, dealer_decisions, results,
                   leftover_deck, exit, start_deck, probe_vars, money_vars>>

\* Player::take_turn: decide_action on the dealer's second card, then
\* handle_player_action.  Hit pops the deck (a panic when it is empty) and
\* leaves the turn open; Stand ends the turn.
PlayerTakeTurn ==
    /\ pc = "player_turns"
    /\ turn <= N
    /\ ~turn_is_skipped(hands[turn])
    /\ ~turn_is_over(hands[turn])
    /\ \E action \in decide_action(players[turn], hands[turn], dealer[2]) :
           /\ decisions' = [decisions EXCEPT ![turn] = Append(@, action)]
           /\ IF action = "Hit"
              THEN IF deck = <<>>
                   THEN /\ pc' = "panic"
                        /\ UNCHANGED <<hands, deck, turn>>
                   ELSE /\ deck' = pop(deck)
                        /\ hands' = [hands EXCEPT ![turn] = Append(@, top(deck))]
                        /\ UNCHANGED <<pc, turn>>
              ELSE /\ turn' = turn + 1
                   /\ UNCHANGED <<hands, deck, pc>>
    /\ UNCHANGED <<players, dealer, dealt, dealer_decisions, results,
                   leftover_deck, exit, start_deck, probe_vars, money_vars>>

\* Fault: only bust hands count as finished.
check_if_all_players_bust(player_hands) ==
    IF \A i \in 1..Len(player_hands) : hand_is_bust(player_hands[i])
    THEN [finished |-> TRUE,
          results |-> [i \in 1..Len(player_hands) |->
                          [player |-> i, result |-> "Lose"]]]
    ELSE [finished |-> FALSE, results |-> <<>>]

\* InProgressGame::check_if_all_players_finished.
check_if_all_players_finished(player_hands) ==
    IF \A i \in 1..Len(player_hands) :
           hand_is_bust(player_hands[i]) \/ hand_is_natural(player_hands[i])
    THEN [finished |-> TRUE,
          results |-> [i \in 1..Len(player_hands) |->
                          [player |-> i,
                           result |-> IF hand_is_natural(player_hands[i])
                                      THEN "Natural" ELSE "Lose"]]]
    ELSE [finished |-> FALSE, results |-> <<>>]

CheckIfAllPlayersFinished ==
    /\ pc = "player_turns"
    /\ turn = N + 1
    /\ LET r == check_if_all_players_finished(hands)
       IN  IF r.finished
           THEN Finished(r.results, "check_if_all_players_finished")
           ELSE /\ pc' = "dealer_turn"
                /\ UNCHANGED <<results, leftover_deck, exit>>
    /\ UNCHANGED <<players, hands, dealer, deck, dealt, turn, decisions,
                   dealer_decisions, start_deck, probe_vars, money_vars>>

\* Fault: a bust dealer pays every player, bust or not.
dealer_turn_bust_all_win(player_hands) ==
    [i \in 1..Len(player_hands) |-> [player |-> i, result |-> "Win"]]

\* InProgressGame::dealer_turn, the results pushed when the dealer is bust.
dealer_turn_bust_results(player_hands) ==
    [i \in 1..Len(player_hands) |->
        [player |-> i,
         result |-> IF hand_is_bust(player_hands[i]) THEN "Lose" ELSE "Win"]]

DealerIsBust ==
    /\ pc = "dealer_turn"
    /\ hand_is_bust(dealer)
    /\ Finished(dealer_turn_bust_results(hands), "dealer_turn")
    /\ UNCHANGED <<players, hands, dealer, deck, dealt, turn, decisions,
                   dealer_decisions, start_deck, probe_vars, money_vars>>

\* Fault: the dealer does not wait for the players to finish.
DealerTakeTurn_early ==
    /\ pc \in {"player_turns", "dealer_turn"}
    /\ ~hand_is_bust(dealer)
    /\ LET action == Dealer_decide_action(dealer)
       IN  /\ dealer_decisions' = Append(dealer_decisions, action)
           /\ IF action = "Hit"
              THEN IF deck = <<>>
                   THEN /\ pc' = "panic"
                        /\ UNCHANGED <<dealer, deck>>
                   ELSE /\ deck' = pop(deck)
                        /\ dealer' = Append(dealer, top(deck))
                        /\ UNCHANGED pc
              ELSE /\ pc' = "complete_round"
                   /\ UNCHANGED <<dealer, deck>>
    /\ UNCHANGED <<players, hands, dealt, turn, decisions, results,
                   leftover_deck, exit, start_deck, probe_vars, money_vars>>

\* Dealer::take_turn: decide_action, then handle_dealer_action.  Stand breaks
\* the loop of dealer_turn, which returns Unfinished.
DealerTakeTurn ==
    /\ pc = "dealer_turn"
    /\ ~hand_is_bust(dealer)
    /\ LET action == Dealer_decide_action(dealer)
       IN  /\ dealer_decisions' = Append(dealer_decisions, action)
           /\ IF action = "Hit"
              THEN IF deck = <<>>
                   THEN /\ pc' = "panic"
                        /\ UNCHANGED <<dealer, deck>>
                   ELSE /\ deck' = pop(deck)
                        /\ dealer' = Append(dealer, top(deck))
                        /\ UNCHANGED pc
              ELSE /\ pc' = "complete_round"
                   /\ UNCHANGED <<dealer, deck>>
    /\ UNCHANGED <<players, hands, dealt, turn, decisions, results,
                   leftover_deck, exit, start_deck, probe_vars, money_vars>>

\* Fault: the dealer takes the ties.
complete_round_dealer_takes_ties(player_hands, dealer_hand) ==
    [i \in 1..Len(player_hands) |->
        [player |-> i,
         result |->
             IF hand_is_natural(player_hands[i]) THEN "Win"
             ELSE IF hand_is_bust(player_hands[i]) THEN "Lose"
             ELSE IF get_hand_value(player_hands[i]) > get_hand_value(dealer_hand)
                  THEN "Win"
             ELSE "Lose"]]

\* Fault: the showdown compares a bust hand like any other.
complete_round_compares_bust(player_hands, dealer_hand) ==
    [i \in 1..Len(player_hands) |->
        [player |-> i,
         result |->
             IF hand_is_natural(player_hands[i]) THEN "Win"
             ELSE IF get_hand_value(player_hands[i]) < get_hand_value(dealer_hand)
                  THEN "Lose"
             ELSE IF get_hand_value(player_hands[i]) > get_hand_value(dealer_hand)
                  THEN "Win"
             ELSE "Standoff"]]

\* InProgressGame::complete_round: the showdown.
complete_round(player_hands, dealer_hand) ==
    [i \in 1..Len(player_hands) |->
        [player |-> i,
         result |->
             IF hand_is_natural(player_hands[i]) THEN "Win"
             ELSE IF hand_is_bust(player_hands[i]) THEN "Lose"
             ELSE IF get_hand_value(player_hands[i]) < get_hand_value(dealer_hand)
                  THEN "Lose"
             ELSE IF get_hand_value(player_hands[i]) > get_hand_value(dealer_hand)
                  THEN "Win"
             ELSE "Standoff"]]

CompleteRound ==
    /\ pc = "complete_round"
    /\ Finished(complete_round(hands, dealer), "complete_round")
    /\ UNCHANGED <<players, hands, dealer, deck, dealt, turn, decisions,
                   dealer_decisions, start_deck, probe_vars, money_vars>>

Next ==
    \/ DealCard
    \/ HandleNaturals
    \/ PlayerHasNatural
    \/ PlayerIsBust
    \/ PlayerTakeTurn
    \/ CheckIfAllPlayersFinished
    \/ DealerIsBust
    \/ DealerTakeTurn
    \/ CompleteRound

Spec == Init /\ [][Next]_vars

\* ------------------------------------------- the policies, probed alone

\* The round is not played in SpecPolicy.
RoundIdle ==
    /\ players = <<>>
    /\ hands = <<>>
    /\ dealer = <<>>
    /\ deck = <<>>
    /\ start_deck = <<>>
    /\ pc = "probe"
    /\ dealt = 0
    /\ turn = 0
    /\ decisions = <<>>
    /\ dealer_decisions = <<>>
    /\ results = <<>>
    /\ leftover_deck = <<>>
    /\ exit = "none"
    /\ MoneyIdle

\* tests::check_action_from_cards: a new actor with an empty hand, and an
\* upcard.
InitPolicy ==
    /\ RoundIdle
    /\ probe_hand = <<>>
    /\ probe_upcard \in ProbeCards
    /\ probe_bot = "none"
    /\ probe_dealer = "none"
    /\ probe_eval = [done |-> FALSE]
    /\ probe_first_run = NoRun

\* Actor::recieve_card: the card is pushed to the hand.
ProbeReceiveCard ==
    /\ Len(probe_hand) < MaxHandLen
    /\ \E card \in ProbeCards : probe_hand' = Append(probe_hand, card)
    /\ probe_bot' = "none"
    /\ probe_dealer' = "none"
    /\ UNCHANGED <<probe_upcard, probe_eval, probe_first_run, round_vars, money_vars>>

\* decide_action of a bot and of a dealer holding the hand.
ProbeDecide ==
    /\ probe_bot = "none"
    /\ probe_bot' = AutoPlayer_decide_action(probe_hand, probe_upcard)
    /\ probe_dealer' = Dealer_decide_action(probe_hand)
    /\ UNCHANGED <<probe_hand, probe_upcard, probe_eval, probe_first_run, round_vars,
                   money_vars>>

NextPolicy ==
    \/ ProbeReceiveCard
    \/ ProbeDecide

SpecPolicy == InitPolicy /\ [][NextPolicy]_vars

\* ---------------------------------------- the valuation, probed alone

\* The hands the tests of blackjack.rs could be written with: every sequence
\* of up to MaxValueHandLen cards.
ProbeHands == UNION {[1..n -> ProbeCards] : n \in 0..MaxValueHandLen}

InitValue ==
    /\ RoundIdle
    /\ probe_hand \in ProbeHands
    /\ probe_upcard = [rank |-> "Ace", suit |-> "Spade"]
    /\ probe_bot = "none"
    /\ probe_dealer = "none"
    /\ probe_eval = [done |-> FALSE]
    /\ probe_first_run = NoRun

\* get_raw_hand_value, is_soft_hand, get_hand_value, hand_is_natural and
\* hand_is_bust of the hand.
EvaluateHand ==
    /\ ~probe_eval.done
    /\ probe_eval' = hand_evaluation(probe_hand)
    /\ UNCHANGED <<probe_hand, probe_upcard, probe_bot, probe_dealer, probe_first_run,
                   round_vars, money_vars>>

NextValue == EvaluateHand

SpecValue == InitValue /\ [][NextValue]_vars

\* ------------------------------------------------ the deck between rounds

\* Rank::iter() and Suit::iter(): the variants in the order of declaration.
RankOrder ==
    <<"Ace", "Two", "Three", "Four", "Five", "Six", "Seven", "Eight", "Nine",
      "Ten", "Jack", "Queen", "King">>
SuitOrder == <<"Club", "Diamond", "Heart", "Spade">>

\* cards::STANDARD_DECK_COUNT = Suit::COUNT * Rank::COUNT.
STANDARD_DECK_COUNT == Len(SuitOrder) * Len(RankOrder)

\* cards::standard_deck: for each suit, for each rank, one card.
standard_deck ==
    [k \in 1..STANDARD_DECK_COUNT |->
        [rank |-> RankOrder[((k - 1) % Len(RankOrder)) + 1],
         suit |-> SuitOrder[((k - 1) \div Len(RankOrder)) + 1]]]

\* cards::create_multideck: the standard deck, num_decks times over.
create_multideck(num_decks) ==
    [k \in 1..(num_decks * STANDARD_DECK_COUNT) |->
        standard_deck[((k - 1) % STANDARD_DECK_COUNT) + 1]]

\* The cards of d, a deck built suit by suit, taken rank by rank.
by_rank(d) ==
    LET same_rank == Len(d) \div Len(RankOrder)
    IN  [k \in 1..Len(d) |->
            d[((k - 1) % same_rank) * Len(RankOrder) + ((k - 1) \div same_rank) + 1]]

\* The two halves of d, interleaved card by card.
riffle(d) ==
    LET half == Len(d) \div 2
    IN  [k \in 1..Len(d) |->
            IF k % 2 = 1 THEN d[(k + 1) \div 2] ELSE d[half + (k \div 2)]]

\* d from its last card to its first.
reversed(d) == [k \in 1..Len(d) |-> d[Len(d) - k + 1]]

\* cards::shuffle_deck: some order of the same cards.  Of all the orders a
\* few stand for them here: as built, reversed, cut in the middle, riffled,
\* and sorted by rank with the high or the low cards on top.
shuffle_deck(d) ==
    {d,
     reversed(d),
     SubSeq(d, (Len(d) \div 2) + 1, Len(d)) \o SubSeq(d, 1, Len(d) \div 2),
     riffle(d),
     riffle(riffle(d)),
     by_rank(d),
     reversed(by_rank(d))}

\* Fault: the floor of 40 cards is forgotten.
get_reshuffle_number_without_floor(num_decks) ==
    (num_decks * STANDARD_DECK_COUNT) \div 5

\* get_reshuffle_number: cmp::max(40, num_decks * deck_card_count / 5).
get_reshuffle_number(num_decks) ==
    LET fifth == (num_decks * STANDARD_DECK_COUNT) \div 5
    IN  IF fifth > 40 THEN fifth ELSE 40

\* Fault: the leftover deck is kept however short it is.
from_previous_round_deck_never_reshuffles(leftover, num_decks) == {leftover}

\* ReadyGame::from_previous_round, the deck of the next game: the leftover
\* deck if it is longer than the reshuffle number, else a new shuffled one.
from_previous_round_deck(leftover, num_decks) ==
    IF Len(leftover) > get_reshuffle_number(num_decks)
    THEN {leftover}
    ELSE shuffle_deck(create_multideck(num_decks))

\* A round has ended with some leftover deck: what is left of a shuffled
\* multideck when cards have been drawn from its top.
InitReshuffle ==
    /\ players = <<>>
    /\ hands = <<>>
    /\ dealer = <<>>
    /\ options \in [betting_buyin : {0}, payout_ratio : {<<3, 2>>},
                    num_decks : 0..MaxDecks]
    /\ \E shuffled \in shuffle_deck(create_multideck(options.num_decks)),
          left \in 0..(options.num_decks * STANDARD_DECK_COUNT) :
           leftover_deck = SubSeq(shuffled, 1, left)
    /\ deck = <<>>
    /\ start_deck = <<>>
    /\ pc = "from_previous_round"
    /\ dealt = 0
    /\ turn = 0
    /\ decisions = <<>>
    /\ dealer_decisions = <<>>
    /\ results = <<>>
    /\ exit = "none"
    /\ money = <<>>
    /\ bet = <<>>
    /\ call = NoCall
    /\ ProbeIdle

\* ReadyGame::from_previous_round, with no player at the table.
FromPreviousRound ==
    /\ pc = "from_previous_round"
    /\ deck' \in from_previous_round_deck(leftover_deck, options.num_decks)
    /\ start_deck' = deck'
    /\ pc' = "deal"
    /\ UNCHANGED <<players, hands, dealer, dealt, turn, decisions,
                   dealer_decisions, results, leftover_deck, exit,
                   money_vars, probe_vars>>

NextReshuffle == FromPreviousRound

SpecReshuffle == InitReshuffle /\ [][NextReshuffle]_vars

\* ---------------------------------------------------- the players' money

\* Option<u32>: None is the empty tuple, Some(n) the tuple of n.
None == <<>>
Some(n) == <<n>>
unwrap(o) == o[1]

\* blackjack::PlayerRoundResult.
PlayerRoundResult == {"Natural", "Win", "Lose", "Standoff"}

\* GameOptions.payout_ratio, an f64, as numerator and denominator: 3/2 (the
\* default of main.rs) and 5/4, both exact in an f64.
PayoutRatios == {<<3, 2>>, <<5, 4>>}

\* `(payout_ratio * bet as f64).floor() as u32`.
floor_of_product(payout_ratio, b) == (payout_ratio[1] * b) \div payout_ratio[2]

\* Fault: a natural pays the ratio but does not give the stake back.
natural_winnings_without_stake(b, payout_ratio) == floor_of_product(payout_ratio, b)

\* `let winnings = bet + (payout_ratio * bet as f64).floor() as u32;`
natural_winnings(b, payout_ratio) == b + floor_of_product(payout_ratio, b)

\* Fault: a buy-in of 0 makes a player with no money instead of a player who
\* does not bet.
Player_new_zero_is_some(buyin) ==
    [hand |-> <<>>, money |-> Some(buyin), bet |-> None]

\* HumanPlayer::new and AutoPlayer::new.
Player_new(buyin) ==
    [hand |-> <<>>, money |-> IF buyin > 0 THEN Some(buyin) ELSE None, bet |-> None]

\* Fault: any player short of the buy-in is topped up.
buyin_if_short(self, buyin_amount) ==
    IF self.money # None /\ unwrap(self.money) < buyin_amount
    THEN [self EXCEPT !.money = Some(buyin_amount)]
    ELSE self

\* Fault: a broke player is left broke.
buyin_if_broke_never(self, buyin_amount) == self

\* HumanPlayer::buyin_if_broke and AutoPlayer::buyin_if_broke (called as
\* buy_in_if_broke by from_previous_round).
buyin_if_broke(self, buyin_amount) ==
    IF self.money = Some(0)
    THEN [self EXCEPT !.money = Some(buyin_amount)]
    ELSE self

\* Fault: a lost bet is left standing.
handle_round_result_lose_keeps_bet(self, result, payout_ratio) ==
    LET cleared == [self EXCEPT !.hand = <<>>]
    IN  IF cleared.bet = None
        THEN cleared
        ELSE LET b == unwrap(cleared.bet)
             IN  CASE result = "Natural" ->
                        [cleared EXCEPT
                            !.money = Some(unwrap(@) + natural_winnings(b, payout_ratio)),
                            !.bet = None]
                   [] result = "Win" ->
                        [cleared EXCEPT !.money = Some(unwrap(@) + (b + b)), !.bet = None]
                   [] result = "Standoff" ->
                        [cleared EXCEPT !.money = Some(unwrap(@) + b), !.bet = None]
                   [] result = "Lose" -> cleared

\* Fault: a winner who did not bet is paid one unit all the same.
handle_round_result_pays_unbet(self, result, payout_ratio) ==
    LET cleared == [self EXCEPT !.hand = <<>>]
    IN  IF cleared.bet = None
        THEN IF cleared.money # None /\ result \in {"Natural", "Win"}
             THEN [cleared EXCEPT !.money = Some(unwrap(@) + 1)]
             ELSE cleared
        ELSE LET b == unwrap(cleared.bet)
             IN  CASE result = "Natural" ->
                        [cleared EXCEPT
                            !.money = Some(unwrap(@) + natural_winnings(b, payout_ratio)),
                            !.bet = None]
                   [] result = "Win" ->
                        [cleared EXCEPT !.money = Some(unwrap(@) + (b + b)), !.bet = None]
                   [] result = "Standoff" ->
                        [cleared EXCEPT !.money = Some(unwrap(@) + b), !.bet = None]
                   [] result = "Lose" -> [cleared EXCEPT !.bet = None]

\* Fault: a Standoff is settled like a Lose.
handle_round_result_standoff_forfeits(self, result, payout_ratio) ==
    LET cleared == [self EXCEPT !.hand = <<>>]
    IN  IF cleared.bet = None
        THEN cleared
        ELSE LET b == unwrap(cleared.bet)
             IN  CASE result = "Natural" ->
                        [cleared EXCEPT
                            !.money = Some(unwrap(@) + natural_winnings(b, payout_ratio)),
                            !.bet = None]
                   [] result = "Win" ->
                        [cleared EXCEPT !.money = Some(unwrap(@) + (b + b)), !.bet = None]
                   [] result = "Standoff" -> [cleared EXCEPT !.bet = None]
                   [] result = "Lose" -> [cleared EXCEPT !.bet = None]

\* HumanPlayer::handle_round_result and AutoPlayer::handle_round_result, the
\* same code: the hand is cleared; without a bet nothing else happens; with
\* a bet the winnings go to the money and the bet is cleared.  (The sums are
\* far below the u32 range.)
handle_round_result(self, result, payout_ratio) ==
    LET cleared == [self EXCEPT !.hand = <<>>]
    IN  IF cleared.bet = None
        THEN cleared
        ELSE LET b == unwrap(cleared.bet)
             IN  CASE result = "Natural" ->
                        [cleared EXCEPT
                            !.money = Some(unwrap(@) + natural_winnings(b, payout_ratio)),
                            !.bet = None]
                   [] result = "Win" ->
                        [cleared EXCEPT !.money = Some(unwrap(@) + (b + b)), !.bet = None]
                   [] result = "Standoff" ->
                        [cleared EXCEPT !.money = Some(unwrap(@) + b), !.bet = None]
                   [] result = "Lose" -> [cleared EXCEPT !.bet = None]

\* A line of input is the sequence of its characters.
Whitespace == {" ", "\n"}

RECURSIVE trim_start(_)
trim_start(s) ==
    IF s # <<>> /\ Head(s) \in Whitespace THEN trim_start(Tail(s)) ELSE s

RECURSIVE trim_end(_)
trim_end(s) ==
    IF s # <<>> /\ s[Len(s)] \in Whitespace
    THEN trim_end(SubSeq(s, 1, Len(s) - 1))
    ELSE s

\* str::trim.
trim(s) == trim_end(trim_start(s))

\* `if input.starts_with('$') { &input[1..] } else { input }`.
strip_dollar(s) == IF s # <<>> /\ Head(s) = "$" THEN Tail(s) ELSE s

DigitChars == <<"0", "1", "2", "3", "4", "5", "6", "7", "8", "9">>
is_digit(c) == \E d \in 1..10 : DigitChars[d] = c
digit_value(c) == (CHOOSE d \in 1..10 : DigitChars[d] = c) - 1

RECURSIVE digits_value(_)
digits_value(s) ==
    IF s = <<>>
    THEN 0
    ELSE 10 * digits_value(SubSeq(s, 1, Len(s) - 1)) + digit_value(s[Len(s)])

\* str::parse::<u32>: an optional '+', then one decimal digit or more;
\* anything else is an Err.  (The lines read here are too short to pass the
\* u32 range.)
parse_u32(s) ==
    LET body == IF s # <<>> /\ Head(s) = "+" THEN Tail(s) ELSE s
    IN  IF body # <<>> /\ \A k \in 1..Len(body) : is_digit(body[k])
        THEN [ok |-> TRUE, number |-> digits_value(body)]
        ELSE [ok |-> FALSE, number |-> 0]

\* The decimal numeral of n, as typed.
RECURSIVE numeral(_)
numeral(n) ==
    IF n < 10
    THEN <<DigitChars[n + 1]>>
    ELSE Append(numeral(n \div 10), DigitChars[(n % 10) + 1])

\* Lines a human may type when asked for a bet: amounts up to most, with and
\* without the dollar sign, and lines that are no amount.
BetInputs(most) ==
    {numeral(n) : n \in 0..most}
        \cup {<<"$">> \o numeral(n) : n \in 0..most}
        \cup {<<>>, <<" ">>, <<"0", "0">>, <<"-", "1">>, <<"+", "1">>,
              <<" ", "1", " ">>, <<"$", " ", "1">>, <<"a", "l", "l">>}

\* Fault: an amount beyond the funds is accepted and empties the purse.
HumanPlayer_set_bet_on_credit(self, input) ==
    LET funds == unwrap(self.money)
        line == strip_dollar(trim(input))
        parsed == parse_u32(line)
    IN  IF self.money = None
        THEN [returned |-> TRUE, self |-> self]
        ELSE IF line = <<>> \/ line = <<"0">>
        THEN [returned |-> TRUE, self |-> self]
        ELSE IF parsed.ok
        THEN [returned |-> TRUE,
              self |-> [self EXCEPT
                           !.bet = Some(parsed.number),
                           !.money = Some(IF parsed.number > funds
                                          THEN 0 ELSE funds - parsed.number)]]
        ELSE [returned |-> FALSE, self |-> self]

\* One pass of the loop of HumanPlayer::set_bet on a line of input (no line
\* is read when the player has no money to bet with): whether set_bet
\* returned, and the player after it.
HumanPlayer_set_bet(self, input) ==
    LET funds == unwrap(self.money)
        line == strip_dollar(trim(input))
        parsed == parse_u32(line)
    IN  IF self.money = None
        THEN [returned |-> TRUE, self |-> self]
        ELSE IF line = <<>> \/ line = <<"0">>
        THEN [returned |-> TRUE, self |-> self]
        ELSE IF parsed.ok
        THEN IF parsed.number > funds
             THEN [returned |-> FALSE, self |-> self]
             ELSE [returned |-> TRUE,
                   self |-> [self EXCEPT !.bet = Some(parsed.number),
                                         !.money = Some(funds - parsed.number)]]
        ELSE [returned |-> FALSE, self |-> self]

\* Fault: a bot with money bets 1.
AutoPlayer_set_bet_bets_one(self) ==
    IF self.money # None /\ unwrap(self.money) >= 1
    THEN [returned |-> TRUE,
          self |-> [self EXCEPT !.bet = Some(1), !.money = Some(unwrap(@) - 1)]]
    ELSE [returned |-> TRUE, self |-> self]

\* AutoPlayer::set_bet: an empty body.
AutoPlayer_set_bet(self) == [returned |-> TRUE, self |-> self]

\* Player::set_bet, by the kind of the player.
set_bet(kind, self, input) ==
    IF kind = "bot" THEN AutoPlayer_set_bet(self) ELSE HumanPlayer_set_bet(self, input)

\* Whether set_bet of the player reads a line at all.
set_bet_reads(kind, self) == kind = "human" /\ self.money # None

\* Player i as the object its methods see.
player_object(i) == [hand |-> hands[i], money |-> money[i], bet |-> bet[i]]

\* ------------------------------------- a human's turn, line by line

UpperChars ==
    <<"A", "B", "C", "D", "E", "F", "G", "H", "I", "J", "K", "L", "M",
      "N", "O", "P", "Q", "R", "S", "T", "U", "V", "W", "X", "Y", "Z">>
LowerChars ==
    <<"a", "b", "c", "d", "e", "f", "g", "h", "i", "j", "k", "l", "m",
      "n", "o", "p", "q", "r", "s", "t", "u", "v", "w", "x", "y", "z">>

\* str::to_lowercase on a line of characters.
lowercase(s) ==
    [k \in 1..Len(s) |->
        IF \E u \in 1..26 : UpperChars[u] = s[k]
        THEN LowerChars[CHOOSE u \in 1..26 : UpperChars[u] = s[k]]
        ELSE s[k]]

\* Fault: a line that is no action is taken for Stand.
parse_from_string_defaults_to_stand(input) ==
    LET line == lowercase(trim(input))
    IN  IF line \in {<<"h", "i", "t">>, <<"h">>}
        THEN [ok |-> TRUE, action |-> "Hit"]
        ELSE [ok |-> TRUE, action |-> "Stand"]

\* Action::parse_from_string.
parse_from_string(input) ==
    LET line == lowercase(trim(input))
    IN  IF line \in {<<"h", "i", "t">>, <<"h">>}
        THEN [ok |-> TRUE, action |-> "Hit"]
        ELSE IF line \in {<<"s", "t", "a", "n", "d">>, <<"s">>}
        THEN [ok |-> TRUE, action |-> "Stand"]
        ELSE [ok |-> FALSE, action |-> "Invalid action input"]

\* Lines a human may type when asked for an action, as read_line gives them.
ActionInputs ==
    {<<"h", "i", "t">>,
     <<"h">>,
     <<"s", "t", "a", "n", "d">>,
     <<"s">>,
     <<"H">>,
     <<"H", "i", "t">>,
     <<"H", "I", "T">>,
     <<"S">>,
     <<"S", "t", "a", "n", "d">>,
     <<"s", "T", "a", "N", "d">>,
     <<" ", "h", " ">>,
     <<"h", "i", "t", "\n">>,
     <<"s", "\n">>,
     <<" ", " ", "s", "t", "a", "n", "d", " ", "\n">>,
     <<>>,
     <<"\n">>,
     <<"h", "i">>,
     <<"h", "i", "t", "s">>,
     <<"x">>,
     <<"y">>,
     <<"h", "s">>,
     <<"s", "t", "a", "n", "d", " ", "u", "p">>,
     <<"h", " ", "s">>,
     <<"1">>}

\* The dealer's hand while the human plays.
TurnDealerHand ==
    <<[rank |-> "Ten", suit |-> "Spade"], [rank |-> "Five", suit |-> "Spade"]>>

\* Cards left in the deck when the human's turn starts.
TurnDeckLen == 2

\* player_turns about to start for one human: two cards in hand, the dealer's
\* two cards on the table, a few cards in the deck.
InitTurn ==
    /\ players = <<"human">>
    /\ hands \in {<<h>> : h \in [1..2 -> DeckCards]}
    /\ dealer = TurnDealerHand
    /\ deck \in [1..TurnDeckLen -> DeckCards]
    /\ start_deck = deck
    /\ pc = "player_turns"
    /\ dealt = 4
    /\ turn = 1
    /\ decisions = << <<>> >>
    /\ dealer_decisions = <<>>
    /\ results = <<>>
    /\ leftover_deck = <<>>
    /\ exit = "none"
    /\ MoneyIdle
    /\ ProbeIdle

\* One pass of the loop of HumanPlayer::decide_action inside the loop of
\* player_turns: a line is read and parsed; on an Err the loop asks again; on
\* Ok(action) decide_action returns and handle_player_action carries it out.
HumanReads(lines) ==
    /\ pc = "player_turns"
    /\ turn <= N
    /\ players[turn] = "human"
    /\ ~turn_is_skipped(hands[turn])
    /\ ~turn_is_over(hands[turn])
    /\ \E input \in lines :
           LET parsed == parse_from_string(input)
           IN  /\ call' = [NoCall EXCEPT !.op = "parse_from_string",
                                         !.result = IF parsed.ok THEN parsed.action ELSE "Err",
                                         !.input = input,
                                         !.hand = hands[turn]]
               /\ IF ~parsed.ok
                  THEN UNCHANGED <<decisions, hands, deck, turn, pc>>
                  ELSE /\ decisions' = [decisions EXCEPT ![turn] = Append(@, parsed.action)]
                       /\ IF parsed.action = "Hit"
                          THEN IF deck = <<>>
                               THEN /\ pc' = "panic"
                                    /\ UNCHANGED <<hands, deck, turn>>
                               ELSE /\ deck' = pop(deck)
                                    /\ hands' = [hands EXCEPT ![turn] = Append(@, top(deck))]
                                    /\ UNCHANGED <<pc, turn>>
                          ELSE /\ turn' = turn + 1
                               /\ UNCHANGED <<hands, deck, pc>>
    /\ UNCHANGED <<players, dealer, dealt, dealer_decisions, results,
                   leftover_deck, exit, start_deck, money, bet, options,
                   probe_vars>>

\* The human's turn with any of the lines of ActionInputs typed.
HumanReadAction == HumanReads(ActionInputs)

NextTurn ==
    \/ PlayerHasNatural
    \/ PlayerIsBust
    \/ HumanReadAction

SpecTurn == InitTurn /\ [][NextTurn]_vars

\* ------------------------------------- one player, its methods called alone

\* The cards an actor holds when a round has been played.
PlayedHand == <<[rank |-> "Ten", suit |-> "Spade"], [rank |-> "Five", suit |-> "Spade"]>>

\* A player as play_blackjack can have made it: of either kind, with or
\* without cards, betting or not; only a human who has money can have a bet.
InitPlayer ==
    /\ players \in {<<"bot">>, <<"human">>}
    /\ options \in [betting_buyin : 0..MaxBuyin, payout_ratio : PayoutRatios,
                    num_decks : {6}]
    /\ \E m \in 0..MaxStake :
           money = <<IF options.betting_buyin > 0 THEN Some(m) ELSE None>>
    /\ bet \in IF players[1] = "human" /\ money[1] # None
               THEN {<<None>>} \cup {<<Some(b)>> : b \in 0..MaxStake}
               ELSE {<<None>>}
    /\ hands \in {<< <<>> >>, <<PlayedHand>>}
    /\ dealer = <<>>
    /\ deck = <<>>
    /\ start_deck = <<>>
    /\ pc = "player"
    /\ dealt = 0
    /\ turn = 1
    /\ decisions = << <<>> >>
    /\ dealer_decisions = <<>>
    /\ results = <<>>
    /\ leftover_deck = <<>>
    /\ exit = "none"
    /\ ProbeIdle
    /\ call = NoCall

\* The player after a method, and the record of the call.
Called(op, result, input, after) ==
    /\ call' = [op |-> op, result |-> result, input |-> input,
                money |-> money[1], bet |-> bet[1], hand |-> hands[1]]
    /\ money' = <<after.money>>
    /\ bet' = <<after.bet>>
    /\ hands' = <<after.hand>>
    /\ UNCHANGED <<players, dealer, deck, pc, dealt, turn, decisions,
                   dealer_decisions, results, leftover_deck, exit, start_deck,
                   options, probe_vars>>

\* player.handle_round_result(result, payout_ratio).
CallHandleRoundResult ==
    /\ pc = "player"
    /\ call.op = "none"
    /\ \E result \in PlayerRoundResult :
           Called("handle_round_result", result, <<>>,
                  handle_round_result(player_object(1), result, options.payout_ratio))

\* player.buyin_if_broke(options.betting_buyin).
CallBuyinIfBroke ==
    /\ pc = "player"
    /\ call.op = "none"
    /\ Called("buyin_if_broke", "none", <<>>,
              buyin_if_broke(player_object(1), options.betting_buyin))

\* player.set_bet(), up to the first line it reads.
CallSetBet ==
    /\ pc = "player"
    /\ call.op = "none"
    /\ \E input \in BetInputs(MaxStake + 1) :
           LET r == set_bet(players[1], player_object(1), input)
           IN  Called("set_bet", IF r.returned THEN "returned" ELSE "ask again",
                      input, r.self)

NextPlayer ==
    \/ CallHandleRoundResult
    \/ CallBuyinIfBroke
    \/ CallSetBet

SpecPlayer == InitPlayer /\ [][NextPlayer]_vars

\* -------------------------------------------------- the session of rounds

\* play_blackjack up to its first deal_hands: ReadyGame::new makes the
\* players with the buy-in of the options.
InitSession ==
    /\ \E bot_player \in BOOLEAN, num_players \in 0..MaxHumans :
           players = ReadyGame_new(bot_player, num_players)
    /\ options \in [betting_buyin : 0..MaxBuyin, payout_ratio : PayoutRatios,
                    num_decks : {6}]
    /\ money = [i \in 1..N |-> Player_new(options.betting_buyin).money]
    /\ bet = [i \in 1..N |-> Player_new(options.betting_buyin).bet]
    /\ hands = [i \in 1..N |-> Player_new(options.betting_buyin).hand]
    /\ dealer = <<>>
    /\ deck = <<>>
    /\ start_deck = <<>>
    /\ pc = "set_bet"
    /\ dealt = 0
    /\ turn = 1
    /\ decisions = [i \in 1..N |-> <<>>]
    /\ dealer_decisions = <<>>
    /\ results = <<>>
    /\ leftover_deck = <<>>
    /\ exit = "none"
    /\ ProbeIdle
    /\ call = NoCall

\* ReadyGame::deal_hands, `for player in &mut self.players { player.set_bet(); }`:
\* one line read by set_bet of the player the loop is at, or that player's
\* set_bet returning without reading.
SessionSetBet ==
    /\ pc = "set_bet"
    /\ turn <= N
    /\ IF set_bet_reads(players[turn], player_object(turn))
       THEN \E input \in BetInputs(MaxMoney + 1) :
                LET r == set_bet(players[turn], player_object(turn), input)
                IN  /\ money' = [money EXCEPT ![turn] = r.self.money]
                    /\ bet' = [bet EXCEPT ![turn] = r.self.bet]
                    /\ turn' = IF r.returned THEN turn + 1 ELSE turn
       ELSE LET r == set_bet(players[turn], player_object(turn), <<>>)
            IN  /\ money' = [money EXCEPT ![turn] = r.self.money]
                /\ bet' = [bet EXCEPT ![turn] = r.self.bet]
                /\ turn' = turn + 1
    /\ UNCHANGED <<players, hands, dealer, deck, pc, dealt, decisions,
                   dealer_decisions, results, leftover_deck, exit, start_deck,
                   options, call, probe_vars>>

\* The money of the players if the results were settled.
settled(round_results) ==
    [i \in 1..Len(round_results) |->
        handle_round_result(player_object(round_results[i].player),
                            round_results[i].result, options.payout_ratio)]

\* The rest of deal_hands and play_round, as the session sees them: every
\* actor ends the round holding cards, and the RoundResult pairs every
\* player, in table order, with a result.  Which cards and which results is
\* the matter of Spec; here any result may come to any player.
SessionPlayRound ==
    /\ pc = "set_bet"
    /\ turn = N + 1
    /\ hands' = [i \in 1..N |-> PlayedHand]
    /\ dealer' = PlayedHand
    /\ \E outcome \in [1..N -> PlayerRoundResult] :
           /\ results' = [i \in 1..N |-> [player |-> i, result |-> outcome[i]]]
           /\ \A i \in 1..N :
                  settled(results')[i].money # None
                      => unwrap(settled(results')[i].money) <= MaxMoney
    /\ pc' = "settle_round"
    /\ call' = NoCall
    /\ UNCHANGED <<players, deck, dealt, turn, decisions, dealer_decisions,
                   leftover_deck, exit, start_deck, money, bet, options,
                   probe_vars>>

\* settle_round: discard_hand and handle_round_result for every (player,
\* result) of the RoundResult; the players go on in that order.
SettleRound ==
    /\ pc = "settle_round"
    /\ money' = [i \in 1..N |-> settled(results)[i].money]
    /\ bet' = [i \in 1..N |-> settled(results)[i].bet]
    /\ hands' = [i \in 1..N |-> settled(results)[i].hand]
    /\ results' = <<>>
    /\ pc' = "another"
    /\ UNCHANGED <<players, dealer, deck, dealt, turn, decisions,
                   dealer_decisions, leftover_deck, exit, start_deck,
                   options, call, probe_vars>>

\* Lines a human may type when asked for another round.
AnotherInputs ==
    {"", "y", "Y", "yes", "YES", "n", "N", "no", "No", "NO",
     "q", "quit", "e", "exit", "maybe"}

\* str::to_lowercase on those lines.
to_lowercase(input) ==
    CASE input = "Y" -> "y"
      [] input = "YES" -> "yes"
      [] input = "N" -> "n"
      [] input \in {"No", "NO"} -> "no"
      [] OTHER -> input

\* One pass of the loop of should_play_another_round: the match on the
\* lowercased line.
should_play_another_round(input) ==
    LET line == to_lowercase(input)
    IN  IF line \in {"", "yes", "y"} THEN "true"
        ELSE IF line \in {"n", "No", "q", "quit", "e", "exit"} THEN "false"
        ELSE "ask again"

\* One line read by should_play_another_round (the call record keeps the
\* line, the answer and the money of the players at that moment, until the
\* next round is played), and what play_blackjack does on its answer: ReadyGame::from_previous_round (buyin_if_broke for every
\* player, a new dealer) and the next deal_hands, or the end of the loop.
ShouldPlayAnotherRound ==
    /\ pc = "another"
    /\ \E input \in AnotherInputs :
           LET answer == should_play_another_round(input)
           IN  /\ call' = [NoCall EXCEPT !.op = "should_play_another_round",
                                         !.result = answer,
                                         !.input = <<input>>,
                                         !.money = money]
               /\ CASE answer = "true" ->
                         /\ money' = [i \in 1..N |->
                                         buyin_if_broke(player_object(i),
                                                        options.betting_buyin).money]
                         /\ dealer' = <<>>
                         /\ turn' = 1
                         /\ pc' = "set_bet"
                    [] answer = "false" ->
                         /\ pc' = "done"
                         /\ UNCHANGED <<money, dealer, turn>>
                    [] OTHER ->
                         UNCHANGED <<money, dealer, turn, pc>>
    /\ UNCHANGED <<players, hands, deck, dealt, decisions, dealer_decisions,
                   results, leftover_deck, exit, start_deck, bet, options,
                   probe_vars>>

NextSession ==
    \/ SessionSetBet
    \/ SessionPlayRound
    \/ SettleRound
    \/ ShouldPlayAnotherRound

SpecSession == InitSession /\ [][NextSession]_vars

\* --------------------------------------- a whole game: bets, round, payment

\* GameOptions.payout_ratio as main.rs hands it over: the default, or any
\* other number typed, 0 among them.
GameRatios == {<<3, 2>>, <<0, 1>>}

\* play_blackjack up to its first deal_hands.  ReadyGame::new makes the
\* players, who bet from the largest buy-in or do not bet at all, and the
\* deck: no card with num_decks 0, else a shuffled deck, here a short one so
\* that it can run out.
InitGame ==
    /\ \E bot_player \in BOOLEAN, num_players \in 0..MaxHumans :
           players = ReadyGame_new(bot_player, num_players)
    /\ options \in [betting_buyin : {0, MaxBuyin}, payout_ratio : GameRatios,
                    num_decks : {0, 1}]
    /\ money = [i \in 1..N |-> Player_new(options.betting_buyin).money]
    /\ bet = [i \in 1..N |-> Player_new(options.betting_buyin).bet]
    /\ hands = [i \in 1..N |-> Player_new(options.betting_buyin).hand]
    /\ dealer = <<>>
    /\ deck \in IF options.num_decks = 0
                THEN {create_multideck(0)}
                ELSE UNION {[1..n -> DeckCards] : n \in 1..GameDeckLen}
    /\ start_deck = deck
    /\ pc = "set_bet"
    /\ dealt = 0
    /\ turn = 1
    /\ decisions = [i \in 1..N |-> <<>>]
    /\ dealer_decisions = <<>>
    /\ results = <<>>
    /\ leftover_deck = <<>>
    /\ exit = "none"
    /\ ProbeIdle
    /\ call = NoCall

\* ReadyGame::deal_hands, from the loop of set_bet to the loops that deal.
StartDeal ==
    /\ pc = "set_bet"
    /\ turn = N + 1
    /\ pc' = "deal"
    /\ turn' = 0
    /\ UNCHANGED <<players, hands, dealer, deck, dealt, decisions,
                   dealer_decisions, results, leftover_deck, exit, start_deck,
                   money_vars, probe_vars>>

\* settle_round on the RoundResult play_round returned.
SettleFinishedRound ==
    /\ pc = "finished"
    /\ money' = [i \in 1..N |-> settled(results)[i].money]
    /\ bet' = [i \in 1..N |-> settled(results)[i].bet]
    /\ hands' = [i \in 1..N |-> settled(results)[i].hand]
    /\ pc' = "another"
    /\ UNCHANGED <<players, dealer, deck, dealt, turn, decisions,
                   dealer_decisions, results, leftover_deck, exit, start_deck,
                   options, call, probe_vars>>

NextGame ==
    \/ SessionSetBet
    \/ StartDeal
    \/ Next
    \/ SettleFinishedRound

SpecGame == InitGame /\ [][NextGame]_vars

\* ------------------------------------------------------------- properties

\* The two cards an actor was dealt.
dealt_hand(hand) == SubSeq(hand, 1, 2)

\* deal_hands has handed out every card of the deal.
DealDone == dealt = 2 * (N + 1)

RECURSIVE cards_in(_)
cards_in(hs) == IF hs = <<>> THEN 0 ELSE Len(Head(hs)) + cards_in(Tail(hs))

hits_in(d) == Cardinality({k \in 1..Len(d) : d[k] = "Hit"})

\* The deck as deal_hands leaves it.
DeckAfterDeal == SubSeq(start_deck, 1, Len(start_deck) - 2 * (N + 1))

Outcomes == {"Natural", "Win", "Lose", "Standoff"}

\* C1: when the dealer is dealt a natural the round ends at the natural
\* check: players with a natural get Standoff, the others Lose, nobody is
\* asked for an action, the dealer takes no turn and no card leaves the
\* deck after the deal.
C1_DealerNaturalEndsRound ==
    (DealDone /\ hand_is_natural(dealt_hand(dealer))) =>
        /\ pc \in {"naturals", "finished"}
        /\ \A i \in 1..N : decisions[i] = <<>> /\ Len(hands[i]) = 2
        /\ dealer_decisions = <<>>
        /\ Len(dealer) = 2
        /\ deck = DeckAfterDeal
        /\ pc = "finished" =>
               /\ exit = "handle_naturals"
               /\ leftover_deck = DeckAfterDeal
               /\ Len(results) = N
               /\ \A i \in 1..N :
                      /\ results[i].player = i
                      /\ results[i].result =
                             IF hand_is_natural(hands[i]) THEN "Standoff" ELSE "Lose"

\* C1 witness: a round ended by the dealer's natural, with one player who
\* has a natural and one who has not.
C1_Witness ==
    /\ pc = "finished"
    /\ hand_is_natural(dealer)
    /\ \E i, j \in 1..N :
           /\ hand_is_natural(hands[i]) /\ results[i].result = "Standoff"
           /\ ~hand_is_natural(hands[j]) /\ results[j].result = "Lose"

\* C2 as stated: dealer without a natural, every player dealt a natural:
\* the round ends at the natural check and every outcome is Win.
C2_AllNaturalsWin ==
    (/\ DealDone
     /\ ~hand_is_natural(dealt_hand(dealer))
     /\ \A i \in 1..N : hand_is_natural(dealt_hand(hands[i]))) =>
        /\ pc \in {"naturals", "finished"}
        /\ pc = "finished" =>
               /\ exit = "handle_naturals"
               /\ Len(results) = N
               /\ \A i \in 1..N : results[i].result = "Win"

\* C2 amended: dealer without a natural, every player dealt a natural: the
\* round ends at the natural check and every outcome is Natural.
C2_AllNaturalsGetNatural ==
    (/\ DealDone
     /\ ~hand_is_natural(dealt_hand(dealer))
     /\ \A i \in 1..N : hand_is_natural(dealt_hand(hands[i]))) =>
        /\ pc \in {"naturals", "finished"}
        /\ pc = "finished" =>
               /\ exit = "handle_naturals"
               /\ Len(results) = N
               /\ \A i \in 1..N : results[i] = [player |-> i, result |-> "Natural"]

\* C2 witness: a two-player round ended at the natural check by the
\* players' naturals.
C2_Witness ==
    /\ pc = "finished"
    /\ N = 2
    /\ ~hand_is_natural(dealer)
    /\ \A i \in 1..N : hand_is_natural(hands[i])

\* What the showdown owes a player, case by case.
ShowdownOutcome(player_hand, dealer_hand) ==
    CASE hand_is_natural(player_hand) -> "Win"
      [] ~hand_is_natural(player_hand) /\ hand_is_bust(player_hand) -> "Lose"
      [] OTHER ->
             CASE get_hand_value(player_hand) > get_hand_value(dealer_hand) -> "Win"
               [] get_hand_value(player_hand) < get_hand_value(dealer_hand) -> "Lose"
               [] get_hand_value(player_hand) = get_hand_value(dealer_hand) -> "Standoff"

C5_AllPlayersFinished ==
    (/\ turn = N + 1
     /\ \A i \in 1..N : hand_is_bust(hands[i]) \/ hand_is_natural(hands[i])) =>
        /\ pc \in {"player_turns", "finished"}
        /\ dealer_decisions = <<>>
        /\ Len(dealer) = 2
        /\ Len(deck) + cards_in(hands) + 2 = Len(start_deck)
        /\ pc = "finished" =>
               /\ exit = "check_if_all_players_finished"
               /\ Len(results) = N
               /\ \A i \in 1..N :
                      results[i].result =
                          IF hand_is_natural(hands[i]) THEN "Natural" ELSE "Lose"

\* C5 witness: a round ended after the player turns with one natural and
\* one bust player.
C5_Witness ==
    /\ pc = "finished"
    /\ exit = "check_if_all_players_finished"
    /\ \E i, j \in 1..N :
           /\ hand_is_natural(hands[i]) /\ results[i].result = "Natural"
           /\ hand_is_bust(hands[j]) /\ results[j].result = "Lose"

\* C6: a finished round has exactly one outcome per player, in table order,
\* from exactly one of the four exits; only players (never the dealer) have
\* one; the deck returned is the start deck less every card drawn.  Until
\* the round finishes no outcome exists.
C6_OneOutcomePerPlayer ==
    /\ pc = "finished" =>
           /\ Len(results) = N
           /\ \A i \in 1..N : results[i].player = i /\ results[i].result \in Outcomes
           /\ exit \in {"handle_naturals", "check_if_all_players_finished",
                        "dealer_turn", "complete_round"}
           /\ leftover_deck =
                  SubSeq(start_deck, 1,
                         Len(start_deck) - cards_in(hands) - Len(dealer))
    /\ pc # "finished" => results = <<>> /\ exit = "none" /\ leftover_deck = <<>>

\* C6 witness: a two-player round that reached the showdown after a player
\* and the dealer each drew.
C6_Witness ==
    /\ pc = "finished"
    /\ exit = "complete_round"
    /\ N = 2
    /\ Len(dealer) > 2
    /\ cards_in(hands) > 4

\* C7: a player dealt a natural is never asked for an action and never gets
\* a third card.
C7_NaturalSkipsTurn ==
    \A i \in 1..N :
        (Len(hands[i]) >= 2 /\ hand_is_natural(dealt_hand(hands[i]))) =>
            decisions[i] = <<>> /\ Len(hands[i]) = 2

\* C7 witness: the player turns went past a player with a natural and on to
\* another player, who acted.
C7_Witness ==
    /\ pc = "dealer_turn"
    /\ \E i, j \in 1..N :
           /\ i < j
           /\ hand_is_natural(hands[i])
           /\ decisions[j] # <<>>

\* C8: a player's turn is a run of Hits, each applied before the next
\* decision, ended by a Stand or by a bust: every decision was asked on a
\* hand that was not bust, nothing follows a Stand, no card follows a bust,
\* the loop stays with the player until then and leaves right after.
C8_TurnUntilStandOrBust ==
    \A i \in 1..N :
        LET d == decisions[i]
            h == hands[i]
        IN  /\ \A k \in 1..(Len(d) - 1) : d[k] = "Hit"
            /\ \A k \in 1..Len(d) :
                   Len(h) >= k + 1 /\ ~hand_is_bust(SubSeq(h, 1, k + 1))
            /\ \A m \in 2..(Len(h) - 1) : ~hand_is_bust(SubSeq(h, 1, m))
            /\ (d # <<>> /\ pc # "panic") => Len(h) = 2 + hits_in(d)
            /\ turn > i =>
                   \/ hand_is_natural(h)
                   \/ hand_is_bust(h)
                   \/ (d # <<>> /\ d[Len(d)] = "Stand")
            /\ (pc = "player_turns" /\ turn = i) =>
                   \A k \in 1..Len(d) : d[k] = "Hit"

\* C8 witness: the player turns are over, one player went bust on a Hit and
\* another drew and then stood.
C8_Witness ==
    /\ turn = N + 1
    /\ \E i, j \in 1..N :
           /\ hand_is_bust(hands[i])
           /\ decisions[i] # <<>>
           /\ Len(decisions[j]) >= 2
           /\ decisions[j][Len(decisions[j])] = "Stand"

\* C9: the dealer stands exactly when its hand's value, soft totals
\* counted, is 17 or more, and hits otherwise, whatever the upcard shown.
C9_DealerPolicy ==
    probe_dealer # "none" =>
        /\ probe_dealer = "Stand" <=> get_hand_value(probe_hand) >= 17
        /\ probe_dealer = "Hit" <=> get_hand_value(probe_hand) < 17

\* C9 witness: the dealer decided on a soft 17.
C9_Witness ==
    /\ probe_dealer = "Stand"
    /\ get_hand_value(probe_hand) = 17
    /\ is_soft_hand(get_raw_hand_value(probe_hand), probe_hand)

\* The claimed stand threshold of the bot on a hard hand, by upcard rank.
HardThreshold(rank) ==
    CASE rank \in {"Four", "Five", "Six"} -> 12
      [] rank \in {"Two", "Three"} -> 13
      [] rank \in {"Ace", "Seven", "Eight", "Nine", "Ten", "Jack", "Queen", "King"} -> 17

holds_ace(hand) == \E k \in 1..Len(hand) : hand[k].rank = "Ace"

PipRanks == <<"Ace", "Two", "Three", "Four", "Five", "Six", "Seven", "Eight", "Nine">>
rank_points(rank) ==
    IF \E p \in 1..9 : PipRanks[p] = rank
    THEN CHOOSE p \in 1..9 : PipRanks[p] = rank
    ELSE 10

RECURSIVE points_upto(_, _)
points_upto(hand, n) ==
    IF n = 0 THEN 0 ELSE points_upto(hand, n - 1) + rank_points(hand[n].rank)

\* C12: the raw value sums Ace 1, 2..9 face value, 10/J/Q/K 10; the hand is
\* soft exactly when the raw value is at most 11 and it holds an Ace; the
\* value is raw + 10 when soft and raw otherwise, so it counts at most one
\* Ace as 11 and the + 10 never busts; bust is exactly value > 21.
C12_HandValue ==
    probe_eval.done =>
        LET raw == points_upto(probe_hand, Len(probe_hand))
            soft == raw <= 11 /\ holds_ace(probe_hand)
        IN  /\ probe_eval.raw = raw
            /\ probe_eval.soft = soft
            /\ probe_eval.value = IF soft THEN raw + 10 ELSE raw
            /\ probe_eval.value \in {raw, raw + 10}
            /\ probe_eval.value = raw + 10 => probe_eval.value <= 21
            /\ probe_eval.bust = (probe_eval.value > 21)

\* C12 witness: a valued hand with two Aces of which exactly one counts 11.
C12_Witness ==
    /\ probe_eval.done
    /\ Cardinality({k \in 1..Len(probe_hand) : probe_hand[k].rank = "Ace"}) = 2
    /\ probe_eval.raw = 11
    /\ probe_eval.value = 21

TenValued == {"Ten", "Jack", "Queen", "King"}

\* C13: a hand is natural exactly when it is two cards, one an Ace and the
\* other a 10, J, Q or K; so two Aces (value 12), a two-card 20 and any hand
\* of three or more cards, 21 or not, are not natural.
C13_NaturalIsAceAndTen ==
    probe_eval.done =>
        /\ probe_eval.natural =
               (/\ Len(probe_hand) = 2
                /\ \E a, t \in 1..2 :
                       /\ a # t
                       /\ probe_hand[a].rank = "Ace"
                       /\ probe_hand[t].rank \in TenValued)
        /\ (Len(probe_hand) = 2 /\ \A k \in 1..2 : probe_hand[k].rank = "Ace")
               => probe_eval.value = 12 /\ ~probe_eval.natural
        /\ (Len(probe_hand) = 2 /\ probe_eval.value = 20) => ~probe_eval.natural
        /\ Len(probe_hand) >= 3 => ~probe_eval.natural

\* C13 witness: a court card followed by an Ace was found natural.
C13_Witness ==
    /\ probe_eval.done
    /\ probe_eval.natural
    /\ Len(probe_hand) = 2
    /\ probe_hand[1].rank = "King"
    /\ probe_hand[2].rank = "Ace"

\* The hand of actor a of the deal: players 1..N in table order, the dealer
\* N + 1.
actor_hand(a) == IF a <= N THEN hands[a] ELSE dealer

\* The place in the deal of actor a's m-th card, and the card of the starting
\* deck that is drawn at that place (the top of the deck is its last element).
draw_number(a, m) == (m - 1) * (N + 1) + a
drawn_card(j) == start_deck[Len(start_deck) - j + 1]

\* C14: the deal makes two passes, each serving the players in table order
\* and then the dealer, one card at a time from the top of the deck; after it
\* every actor holds two cards and the deck is 2 * (N + 1) cards shorter; no
\* actor holds a second card before every actor holds a first.
C14_DealOrder ==
    pc # "panic" =>
        /\ dealt <= 2 * (N + 1)
        /\ \A a \in 1..(N + 1), m \in 1..2 :
               draw_number(a, m) <= dealt =>
                   /\ Len(actor_hand(a)) >= m
                   /\ actor_hand(a)[m] = drawn_card(draw_number(a, m))
        /\ pc = "deal" =>
               /\ deck = SubSeq(start_deck, 1, Len(start_deck) - dealt)
               /\ \A a \in 1..(N + 1) :
                      Len(actor_hand(a)) =
                          Cardinality({m \in 1..2 : draw_number(a, m) <= dealt})
               /\ \A a, b \in 1..(N + 1) :
                      Len(actor_hand(a)) = 2 => Len(actor_hand(b)) >= 1
        /\ pc = "naturals" =>
               /\ dealt = 2 * (N + 1)
               /\ Len(deck) = Len(start_deck) - 2 * (N + 1)
               /\ deck = SubSeq(start_deck, 1, Len(start_deck) - 2 * (N + 1))
               /\ \A a \in 1..(N + 1) : Len(actor_hand(a)) = 2

\* C14 witness: the deal to two players and the dealer is complete, from a
\* deck whose first six draws tell the actors and the passes apart.
C14_Witness ==
    /\ pc = "naturals"
    /\ N = 2
    /\ hands[1] = <<drawn_card(1), drawn_card(4)>>
    /\ hands[2] = <<drawn_card(2), drawn_card(5)>>
    /\ dealer = <<drawn_card(3), drawn_card(6)>>
    /\ hands[1][1] # hands[2][1]
    /\ hands[1][1] # dealer[1]
    /\ hands[2][1] # dealer[1]
    /\ hands[1][1] # hands[1][2]

\* The action an actor's decide_action has just returned, when a step
\* lengthens the record of its decisions.
last_of(d) == d[Len(d)]

\* C15 for one step of a player: a Hit on a deck that holds a card removes
\* exactly the top card and appends it to the hand of the player whose turn
\* it is, changes no other hand and leaves the turn open; a Stand ends the
\* turn and changes neither the deck nor any hand.
C15_PlayerStep ==
    decisions' # decisions =>
        LET action == last_of(decisions'[turn])
        IN  /\ (action = "Hit" /\ deck # <<>>) =>
                   /\ Len(deck') = Len(deck) - 1
                   /\ \A k \in 1..Len(deck') : deck'[k] = deck[k]
                   /\ hands'[turn] = Append(hands[turn], deck[Len(deck)])
                   /\ \A i \in 1..N : i # turn => hands'[i] = hands[i]
                   /\ dealer' = dealer
                   /\ turn' = turn
                   /\ pc' = "player_turns"
            /\ action = "Stand" =>
                   /\ deck' = deck
                   /\ hands' = hands
                   /\ dealer' = dealer
                   /\ turn' = turn + 1

\* C15 for one step of the dealer: the same, the hand being the dealer's and
\* a Stand ending the dealer's turn.
C15_DealerStep ==
    dealer_decisions' # dealer_decisions =>
        LET action == last_of(dealer_decisions')
        IN  /\ (action = "Hit" /\ deck # <<>>) =>
                   /\ Len(deck') = Len(deck) - 1
                   /\ \A k \in 1..Len(deck') : deck'[k] = deck[k]
                   /\ dealer' = Append(dealer, deck[Len(deck)])
                   /\ hands' = hands
                   /\ pc' = "dealer_turn"
            /\ action = "Stand" =>
                   /\ deck' = deck
                   /\ hands' = hands
                   /\ dealer' = dealer
                   /\ pc' = "complete_round"

\* C15: a Hit removes exactly the top card of the deck and appends it to the
\* acting actor's hand, leaving every other hand unchanged and the actor's
\* turn open; a Stand ends the actor's turn and changes no deck and no hand.
C15_HitAndStand == [][C15_PlayerStep /\ C15_DealerStep]_vars

\* C15 witness: the first of two players hit once, was given the card next
\* under the deal, and stood; the dealer hit as well.
C15_Witness ==
    /\ N = 2
    /\ decisions[1] = <<"Hit", "Stand">>
    /\ hands[1] = <<drawn_card(1), drawn_card(4), drawn_card(7)>>
    /\ drawn_card(7) # start_deck[1]
    /\ Len(dealer_decisions) >= 2
    /\ dealer_decisions[1] = "Hit"

\* floor(r * b) for the ratio r, as the largest integer not above r * b.
floor_ratio(r, b) ==
    CHOOSE k \in 0..(r[1] * b) : k * r[2] <= r[1] * b /\ r[1] * b < (k + 1) * r[2]

\* What a settlement is to credit: b + floor(r * b) for Natural, 2 * b for
\* Win, b for Standoff, nothing for Lose.
ExpectedCredit(result, b, r) ==
    CASE result = "Natural" -> b + floor_ratio(r, b)
      [] result = "Win" -> 2 * b
      [] result = "Standoff" -> b
      [] result = "Lose" -> 0

\* The amount the last call added to the player's money.
credited == unwrap(money[1]) - unwrap(call.money)

\* C16: settling a player who has an active bet b with payout ratio r
\* credits to the player's money exactly b + floor(r * b) for Natural, 2 * b
\* for Win, b for Standoff and nothing for Lose; for b = 10 and r = 1.5 that
\* is 25, 20, 10 and 0.
C16_SettlementCredits ==
    (call.op = "handle_round_result" /\ call.bet # None) =>
        /\ money[1] # None
        /\ credited = ExpectedCredit(call.result, unwrap(call.bet), options.payout_ratio)
        /\ (call.bet = Some(10) /\ options.payout_ratio = <<3, 2>>) =>
               /\ call.result = "Natural" => credited = 25
               /\ call.result = "Win" => credited = 20
               /\ call.result = "Standoff" => credited = 10
               /\ call.result = "Lose" => credited = 0

\* C16 witness: a bet of 10 was settled as a Natural at ratio 1.5 and 25 was
\* credited.
C16_Witness ==
    /\ call.op = "handle_round_result"
    /\ call.result = "Natural"
    /\ call.bet = Some(10)
    /\ options.payout_ratio = <<3, 2>>
    /\ call.money = Some(3)
    /\ money[1] = Some(28)

\* C17: after the settlement of a round every player's bet is None and every
\* player's hand is empty, whatever the outcome and whether or not the
\* player had bet; at the start of every deal the hands of all players and of
\* the dealer are empty.
C17_SettlementClears ==
    /\ pc = "another" =>
           \A i \in 1..N : bet[i] = None /\ hands[i] = <<>>
    /\ pc = "set_bet" =>
           /\ \A i \in 1..N : hands[i] = <<>>
           /\ dealer = <<>>

\* C17 witness: a round is settled in which, of two players, one had bet and
\* lost part of the buy-in and the other had not bet.
C17_Witness ==
    /\ pc = "another"
    /\ N = 2
    /\ \E i, j \in 1..N :
           /\ money[i] # None
           /\ unwrap(money[i]) < options.betting_buyin
           /\ money[j] = Some(options.betting_buyin)
    /\ \A i \in 1..N : bet[i] = None /\ hands[i] = <<>>

\* C18: settling a player who has no active bet leaves that player's money
\* unchanged for every outcome, Natural and Win included.
C18_NoBetNoMoneyChange ==
    (call.op = "handle_round_result" /\ call.bet = None) =>
        money[1] = call.money

\* C18 witness: a player with money and no bet was settled as a Natural.
C18_Witness ==
    /\ call.op = "handle_round_result"
    /\ call.result = "Natural"
    /\ call.bet = None
    /\ call.money = Some(3)
    /\ call.hand # <<>>
    /\ money[1] = Some(3)

\* C19: buyin_if_broke sets the money to the configured buy-in amount when
\* the money is exactly Some(0), and leaves it unchanged when it is None or
\* any positive amount.
C19_BuyinOnlyWhenBroke ==
    call.op = "buyin_if_broke" =>
        /\ call.money = Some(0) => money[1] = Some(options.betting_buyin)
        /\ call.money = None => money[1] = None
        /\ (call.money # None /\ call.money # Some(0)) => money[1] = call.money

\* C19 witness: a player with money Some(0) was bought in for 2.
C19_Witness ==
    /\ call.op = "buyin_if_broke"
    /\ call.money = Some(0)
    /\ options.betting_buyin = 2
    /\ money[1] = Some(2)

\* C20: a player created with buy-in 0 has money None, and in every state of
\* a session (bet-setting, rounds, settlements, buy-in checks) such a player
\* has money None and bet None; a player created with a positive buy-in has
\* money Some in every state.  Hence None never becomes Some and Some never
\* becomes None.
C20_NoneStaysNone ==
    \A i \in 1..N :
        /\ options.betting_buyin = 0 => (money[i] = None /\ bet[i] = None)
        /\ options.betting_buyin > 0 => money[i] # None

\* C20 witness: a round has been played and settled by a human made with
\* buy-in 0, who was asked for another round.
C20_Witness ==
    /\ pc = "another"
    /\ dealer # <<>>
    /\ options.betting_buyin = 0
    /\ \E i \in 1..N : players[i] = "human" /\ money[i] = None /\ bet[i] = None

\* max(40, num_decks * 52 / 5) with integer division, from its meaning: the
\* larger of 40 and the largest integer q with 5 * q <= num_decks * 52.
Threshold(num_decks) ==
    LET q == CHOOSE k \in 0..(num_decks * 52) :
                 5 * k <= num_decks * 52 /\ num_decks * 52 < 5 * (k + 1)
    IN  IF q >= 40 THEN q ELSE 40

\* How often a card is in a deck.
copies(d, card) == Cardinality({k \in 1..Len(d) : d[k] = card})

\* C21: between rounds the carried-over deck is compared with
\* max(40, num_decks * 52 / 5), 62 for six decks: at or below it the next
\* game has a fresh deck of num_decks * 52 cards, every card num_decks
\* times; above it the next game has the carried-over deck unchanged.  For
\* six decks, 60 and 62 cards are replaced and 63 are kept.
C21_ReshuffleThreshold ==
    (pc = "deal" /\ players = <<>> /\ start_deck = deck) =>
        LET n == options.num_decks
            left == Len(leftover_deck)
        IN  /\ n = 6 => Threshold(n) = 62
            /\ left <= Threshold(n) =>
                   /\ Len(deck) = n * 52
                   /\ \A card \in Card : copies(deck, card) = n
            /\ left > Threshold(n) => deck = leftover_deck
            /\ (n = 6 /\ left \in {60, 62}) => Len(deck) = 312
            /\ (n = 6 /\ left = 63) => deck = leftover_deck

\* C21 witness: with six decks a leftover of 62 cards was replaced by 312.
C21_Witness ==
    /\ pc = "deal"
    /\ options.num_decks = 6
    /\ Len(leftover_deck) = 62
    /\ Len(deck) = 312
    /\ deck # leftover_deck \o SubSeq(deck, 63, 312)

\* The lines that are an action: hit, h, stand, s in any case, with any
\* blanks and line ends around them.
HitLines ==
    {<<"h", "i", "t">>, <<"h">>, <<"H">>, <<"H", "i", "t">>, <<"H", "I", "T">>,
     <<" ", "h", " ">>, <<"h", "i", "t", "\n">>}
StandLines ==
    {<<"s", "t", "a", "n", "d">>, <<"s">>, <<"S">>, <<"S", "t", "a", "n", "d">>,
     <<"s", "T", "a", "N", "d">>, <<"s", "\n">>,
     <<" ", " ", "s", "t", "a", "n", "d", " ", "\n">>}

\* C22 for one line read: the line is parsed as Hit or Stand exactly when it
\* is one of the accepted words, and as an error otherwise; on an error
\* nothing changes (no decision, no card drawn, turn not ended); a decision
\* is recorded only when the line was an action, and it is that action.
C22_LineRead ==
    (call' # call /\ call'.op = "parse_from_string") =>
        /\ call'.result = (IF call'.input \in HitLines THEN "Hit"
                           ELSE IF call'.input \in StandLines THEN "Stand"
                           ELSE "Err")
        /\ call'.result = "Err" =>
               /\ decisions' = decisions
               /\ hands' = hands
               /\ deck' = deck
               /\ dealer' = dealer
               /\ turn' = turn
               /\ pc' = pc
        /\ call'.result # "Err" =>
               decisions' = [decisions EXCEPT ![turn] = Append(@, call'.result)]

\* C22: action parsing accepts only hit/h (Hit) and stand/s (Stand) after
\* trimming and ignoring case and returns an error for every other input; a
\* human's decision step on an erroneous input asks again and changes
\* nothing, so no action is ever taken by default.
C22_ParseOrAskAgain == [][C22_LineRead /\ (decisions' # decisions => call' # call)]_vars

\* C22 witness: the human typed "hits", was asked again, and holds the two
\* cards of the deal with no decision taken.
C22_Witness ==
    /\ call.op = "parse_from_string"
    /\ call.input = <<"h", "i", "t", "s">>
    /\ call.result = "Err"
    /\ pc = "player_turns"
    /\ turn = 1
    /\ decisions[1] = <<>>
    /\ Len(hands[1]) = 2
    /\ deck = start_deck

\* A step that tries to draw a card: any step of the deal, a player's Hit,
\* the dealer's Hit.
draw_attempted ==
    \/ pc = "deal"
    \/ decisions' # decisions /\ last_of(decisions'[turn]) = "Hit"
    \/ dealer_decisions' # dealer_decisions /\ last_of(dealer_decisions') = "Hit"

\* C23 for one step: a draw attempted on an empty deck panics; the step into
\* the panic changes no hand and no money and emits no results; and nothing
\* at all happens after a panic (no outcome, no settlement, no change).
C23_Step ==
    /\ pc # "panic"
    /\ (deck = <<>> /\ draw_attempted) => pc' = "panic"
    /\ pc' = "panic" =>
           /\ deck = <<>>
           /\ draw_attempted
           /\ hands' = hands
           /\ dealer' = dealer
           /\ money' = money
           /\ bet' = bet
           /\ results' = <<>>
           /\ exit' = "none"

\* C23: a draw attempted on an empty deck (during the deal, a player's Hit or
\* the dealer's Hit) is fatal: the round stops at that point, no outcome is
\* emitted, no settlement runs and no hand or money is changed afterwards.
C23_EmptyDeckIsFatal == [][C23_Step]_vars

\* C23 witness: a human who had bet hit on the empty deck; the game stopped
\* with the bet still staked, the hand as dealt and no results.
C23_Witness ==
    /\ pc = "panic"
    /\ deck = <<>>
    /\ results = <<>>
    /\ \E i \in 1..N :
           /\ players[i] = "human"
           /\ bet[i] # None
           /\ unwrap(bet[i]) > 0
           /\ decisions[i] = <<"Hit">>
           /\ Len(hands[i]) = 2

\* The amounts a line can stand for, read as a person would: the numeral
\* itself, with a dollar sign, with blanks around it, with a plus sign.
typed_amounts(input) ==
    {n \in 0..(MaxStake + 1) :
        input \in {numeral(n), <<"$">> \o numeral(n), <<"+">> \o numeral(n),
                   <<" ">> \o numeral(n) \o <<" ">>, <<"0">> \o numeral(n)}}

\* Money and bet of an Option<u32> pair taken together, None counting 0.
amount_of(o) == IF o = None THEN 0 ELSE unwrap(o)

\* C24: a bet set for a round never exceeds the player's money at that
\* moment: an amount greater than the funds is refused and asked again, and
\* an accepted bet b moves b out of the money (money after = money before
\* - b >= 0), so that money + bet is unchanged by bet-setting.
C24_BetWithinFunds ==
    (call.op = "set_bet" /\ players[1] = "human" /\ call.money # None
        /\ call.bet = None) =>
        LET funds == unwrap(call.money)
        IN  /\ (\E n \in typed_amounts(call.input) : n > funds) =>
                   /\ call.result = "ask again"
                   /\ bet[1] = None
                   /\ money[1] = call.money
            /\ bet[1] # None =>
                   /\ call.result = "returned"
                   /\ unwrap(bet[1]) \in typed_amounts(call.input)
                   /\ unwrap(bet[1]) <= funds
                   /\ money[1] = Some(funds - unwrap(bet[1]))
            /\ money[1] # None
            /\ amount_of(money[1]) + amount_of(bet[1]) = funds

\* C24 witness: a human with 3 bet all 3 and has 0 left.
C24_Witness ==
    /\ call.op = "set_bet"
    /\ players[1] = "human"
    /\ call.money = Some(3)
    /\ call.bet = None
    /\ call.input = <<"$", "3">>
    /\ bet[1] = Some(3)
    /\ money[1] = Some(0)

\* C25: a player whose money is exactly 0 at the end of a round is
\* re-bought-in to the configured buy-in before the bets of the next round
\* are solicited and before any card of that round is dealt; hence in every
\* round no player still to be asked for a bet has money 0.
C25_RebuyBeforeBets ==
    pc = "set_bet" =>
        /\ \A i \in 1..N : i >= turn => money[i] # Some(0)
        /\ (call.op = "should_play_another_round" /\ turn = 1) =>
               /\ \A i \in 1..N :
                      call.money[i] = Some(0)
                          => money[i] = Some(options.betting_buyin)
               /\ \A i \in 1..N : hands[i] = <<>> /\ bet[i] = None
               /\ dealer = <<>>

\* C25 witness: a human who ended a round with money 0 said yes to another
\* round and is about to be asked for a bet, with the buy-in in hand and no
\* card dealt.
C25_Witness ==
    /\ pc = "set_bet"
    /\ call.op = "should_play_another_round"
    /\ \E i \in 1..N :
           /\ turn = i
           /\ players[i] = "human"
           /\ call.money[i] = Some(0)
           /\ money[i] = Some(options.betting_buyin)
           /\ hands[i] = <<>>
    /\ dealer = <<>>

\* C26 as stated: in every finished round a player who has 21 in the first
\* two cards receives Natural when the dealer's hand is not natural, and
\* Standoff when the dealer's hand is natural too.
C26_NaturalGetsNatural ==
    pc = "finished" =>
        \A i \in 1..N :
            hand_is_natural(hands[i]) =>
                results[i].result =
                    (IF hand_is_natural(dealer) THEN "Standoff" ELSE "Natural")

\* C27 as stated: a configuration with num_decks = 0 or payout_ratio <= 0
\* is rejected before any round starts: under it no bet is solicited and no
\* card is dealt.
C27_BadConfigurationRejected ==
    (options.num_decks = 0 \/ options.payout_ratio[1] <= 0) =>
        /\ \A i \in 1..N :
               (players[i] = "human" /\ money[i] # None) =>
                   (pc = "set_bet" /\ turn <= i /\ bet[i] = None)
        /\ dealt = 0
        /\ \A i \in 1..N : hands[i] = <<>>
        /\ dealer = <<>>

\* C28 as stated: after a round is settled, answering "no" or "quit" to the
\* continuation prompt ends the session, and answering yes starts another
\* round with the same players.
C28_ContinuationPrompt ==
    call.op = "should_play_another_round" =>
        /\ call.input \in {<<"no">>, <<"quit">>} => pc = "done"
        /\ call.input \in {<<"yes">>, <<"y">>} =>
               /\ pc = "set_bet"
               /\ Len(money) = Len(players)
               /\ Len(call.money) = Len(players)

\* C29 as stated: in bet-setting a zero or negative bet input, and an empty
\* input, is accepted as "not betting this round": the prompt ends, the bet
\* stays None and the money is unchanged.
C29_NotBettingInputs ==
    (call.op = "set_bet" /\ players[1] = "human" /\ call.money # None
        /\ call.bet = None
        /\ call.input \in {<<>>, <<" ">>, <<"0">>, <<"$", "0">>, <<"-", "1">>}) =>
            /\ call.result = "returned"
            /\ bet[1] = None
            /\ money[1] = call.money

\* Whether player i's turn is over: skipped for a natural, bust, or stood.
turn_done(i) ==
    \/ hand_is_natural(hands[i])
    \/ hand_is_bust(hands[i])
    \/ (decisions[i] # <<>> /\ last_of(decisions[i]) = "Stand")

\* The phases a phase can be followed by.
PhaseOrder ==
    \/ pc' = pc
    \/ pc = "deal" /\ pc' = "naturals"
    \/ pc = "naturals" /\ pc' \in {"player_turns", "finished"}
    \/ pc = "player_turns" /\ pc' \in {"dealer_turn", "finished"}
    \/ pc = "dealer_turn" /\ pc' \in {"complete_round", "finished"}
    \/ pc = "complete_round" /\ pc' = "finished"
    \/ pc' = "panic"

\* What the order means in one state: before the player turns nobody has
\* decided anything; during them the players before the current one are
\* done, the current one at most is at work, the later ones have their two
\* cards and have been asked for nothing, and the dealer has two cards and
\* has decided nothing; the dealer acts only with every player done.
TableOrder ==
    /\ pc \in {"deal", "naturals"} =>
           /\ dealer_decisions = <<>>
           /\ \A i \in 1..N : decisions[i] = <<>>
    /\ pc = "player_turns" =>
           /\ Len(dealer) = 2
           /\ dealer_decisions = <<>>
           /\ turn \in 1..(N + 1)
           /\ \A i \in 1..N : i < turn => turn_done(i)
           /\ \A i \in 1..N : i > turn => (decisions[i] = <<>> /\ Len(hands[i]) = 2)
    /\ pc \in {"dealer_turn", "complete_round"} =>
           \A i \in 1..N : turn_done(i)
    /\ dealer_decisions # <<>> => \A i \in 1..N : turn_done(i)
    /\ Len(dealer) > 2 => \A i \in 1..N : turn_done(i)

\* C30 for one step: the phase moves only forward in the forced order; only
\* the player whose turn it is gets asked; the order holds before and after.
C30_Step ==
    /\ PhaseOrder
    /\ TableOrder
    /\ decisions' # decisions =>
           /\ pc = "player_turns"
           /\ \A i \in 1..N : i # turn => decisions'[i] = decisions[i]
    /\ dealer' # dealer => (pc = "deal" \/ pc = "dealer_turn")

\* C30: the phases of a round occur in the forced order deal, natural check,
\* player turns, all-players-finished check, dealer turn, showdown; players
\* act strictly in table order, and the dealer draws no card until every
\* player's turn is over, so that the dealer holds exactly two cards
\* throughout the player turns.
C30_ForcedOrder == [][C30_Step]_vars

\* C30 witness: two players have had their turns, the first hitting before
\* standing, then the dealer hit and stood, and the showdown is next.
C30_Witness ==
    /\ pc = "complete_round"
    /\ N = 2
    /\ decisions[1] = <<"Hit", "Stand">>
    /\ decisions[2] = <<"Stand">>
    /\ dealer_decisions = <<"Hit", "Stand">>
    /\ Len(dealer) = 3

\* C31: a player who goes bust receives Lose at whichever exit ends the
\* round (all-players-finished check, dealer bust or showdown), also when the
\* dealer is bust too; a player with a natural never receives Lose unless the
\* dealer's hand is natural.
C31_BustLosesNaturalDoesNot ==
    pc = "finished" =>
        /\ Len(results) = N
        /\ \A i \in 1..N :
               /\ hand_is_bust(hands[i]) => results[i].result = "Lose"
               /\ (hand_is_natural(hands[i]) /\ results[i].result = "Lose") =>
                      hand_is_natural(dealer)

\* C31 witness: the showdown is over with a bust player, who got Lose though
\* the dealer stood below the player's count, beside a player that stood.
C31_Witness ==
    /\ pc = "finished"
    /\ exit = "complete_round"
    /\ \E i, j \in 1..N :
           /\ hand_is_bust(hands[i])
           /\ results[i].result = "Lose"
           /\ ~hand_is_bust(hands[j])
           /\ ~hand_is_natural(hands[j])

\* ------------------------- two runs that differ in the dealer's first card

\* The place of the dealer's first card in the deck a round starts with: it
\* is draw N + 1 of deal_hands.
hidden_card_place == Len(start_deck) - N

\* The player turns of a round are over.  A second run is set up from the
\* same shuffled deck but for the dealer's first card, which is another card
\* that gives the dealer no natural either: the deal and the natural check
\* of that run leave the players with their first two cards, the deck as it
\* was after the deal, and the first player to act.  The first run's player
\* turns are kept for comparison.
ReplayWithOtherHiddenCard ==
    /\ pc = "player_turns"
    /\ turn = N + 1
    /\ ~probe_first_run.done
    /\ \E card \in DeckCards \ {dealer[1]} :
           /\ ~hand_is_natural(<<card, dealer[2]>>)
           /\ dealer' = <<card, dealer[2]>>
           /\ start_deck' = [start_deck EXCEPT ![hidden_card_place] = card]
    /\ probe_first_run' = [done |-> TRUE, decisions |-> decisions, hands |-> hands]
    /\ hands' = [i \in 1..N |-> dealt_hand(hands[i])]
    /\ deck' = DeckAfterDeal
    /\ decisions' = [i \in 1..N |-> <<>>]
    /\ turn' = 1
    /\ UNCHANGED <<players, pc, dealt, dealer_decisions, results, leftover_deck,
                   exit, probe_hand, probe_upcard, probe_bot, probe_dealer,
                   probe_eval, money_vars>>

NextHidden ==
    \/ DealCard
    \/ HandleNaturals
    \/ PlayerHasNatural
    \/ PlayerIsBust
    \/ PlayerTakeTurn
    \/ ReplayWithOtherHiddenCard

SpecHidden == Init /\ [][NextHidden]_vars

\* Whether a is an initial part of b.
is_prefix(a, b) == Len(a) <= Len(b) /\ SubSeq(b, 1, Len(a)) = a

\* The card the deal gave the dealer second.
upcard == drawn_card(draw_number(N + 1, 2))

\* The humans have so far answered in the second run as in the first.
same_human_answers ==
    \A i \in 1..N :
        players[i] = "human" => is_prefix(decisions[i], probe_first_run.decisions[i])

\* C32 for one step: a decision a player takes is one its policy gives on
\* the player's hand and the dealer's second-dealt card.
C32_PolicySeesUpcard ==
    \A i \in 1..N :
        Len(decisions'[i]) > Len(decisions[i]) =>
            /\ i = turn
            /\ last_of(decisions'[i]) \in decide_action(players[i], hands[i], upcard)

\* C32 for two runs: while the humans answer alike, the second run repeats
\* the first; once its player turns are over the actions of every player and
\* every player's hand are those of the first run.
C32_SameTurns ==
    (probe_first_run.done /\ pc = "player_turns" /\ same_human_answers) =>
        /\ \A i \in 1..N :
               /\ is_prefix(decisions[i], probe_first_run.decisions[i])
               /\ is_prefix(hands[i], probe_first_run.hands[i])
        /\ turn = N + 1 =>
               /\ decisions = probe_first_run.decisions
               /\ hands = probe_first_run.hands

\* C32: the only dealer card a player's policy receives is the dealer's
\* second-dealt card; in rounds where the dealer's hand is not natural, two
\* runs that differ only in the dealer's first card give the same sequence of
\* bot actions and the same player hands up to the start of the dealer turn.
C32_HiddenCardStaysHidden == [][C32_PolicySeesUpcard /\ C32_SameTurns']_vars

\* C32 witness: the second run's player turns are over; in both runs the bot
\* drew a card and stood, and the two dealers' first cards differ in value.
C32_Witness ==
    /\ probe_first_run.done
    /\ pc = "player_turns"
    /\ turn = N + 1
    /\ N >= 1
    /\ players[1] = "bot"
    /\ decisions[1] = <<"Hit", "Stand">>
    /\ probe_first_run.decisions[1] = <<"Hit", "Stand">>
    /\ dealer[1].rank = "Five"

\* How often a card is held by the players and the dealer together.
RECURSIVE copies_in_hands(_, _)
copies_in_hands(hs, card) ==
    IF hs = <<>> THEN 0 ELSE copies(Head(hs), card) + copies_in_hands(Tail(hs), card)

\* The deck is what is left of the round's deck below the cards handed out,
\* in order, and the cards handed out are in the hands, each as often as the
\* round's deck held it.
CardsConserved ==
    /\ Len(deck) <= Len(start_deck)
    /\ deck = SubSeq(start_deck, 1, Len(deck))
    /\ Len(deck) + cards_in(hands) + Len(dealer) = Len(start_deck)
    /\ \A card \in DeckCards :
           copies(deck, card) + copies_in_hands(hands, card) + copies(dealer, card)
               = copies(start_deck, card)

\* C33 for one step: the deck changes only by losing its top card, which
\* goes to exactly one hand.
C33_Step ==
    /\ CardsConserved
    /\ CardsConserved'
    /\ deck' # deck =>
           /\ deck # <<>>
           /\ deck' = SubSeq(deck, 1, Len(deck) - 1)
           /\ cards_in(hands') + Len(dealer') = cards_in(hands) + Len(dealer) + 1
    /\ deck' = deck => (hands' = hands /\ dealer' = dealer)

\* C33: cards are conserved within a round: at every step from the deal to
\* the results the deck together with the players' hands and the dealer's
\* hand holds exactly the cards of the deck the round started with, each
\* once; the deck changes only by removal of its top card and its remaining
\* cards keep their order.
C33_CardsConserved == [][C33_Step]_vars

\* C33 witness: a round of two players is over and every card of a deck that
\* held all three ranks has gone to a hand.
C33_Witness ==
    /\ pc = "finished"
    /\ N = 2
    /\ deck = <<>>
    /\ \A card \in DeckCards : copies(start_deck, card) >= 1
    /\ Len(dealer) >= 3

\* The showdown is next or has given the results.
at_showdown == pc = "complete_round" \/ (pc = "finished" /\ exit = "complete_round")

\* C34 for one step of the dealer turn: a card is drawn only below 17; the
\* turn is left for the showdown on a Stand at 17 or more, or with the bust
\* results when the hand is bust (or the program stops on an empty deck).
C34_DealerStep ==
    pc = "dealer_turn" =>
        /\ dealer' # dealer =>
               /\ get_hand_value(dealer) < 17
               /\ dealer' = Append(dealer, top(deck))
        /\ pc' = "complete_round" =>
               /\ get_hand_value(dealer) >= 17
               /\ ~hand_is_bust(dealer)
               /\ last_of(dealer_decisions') = "Stand"
               /\ dealer' = dealer
        /\ pc' = "finished" => (hand_is_bust(dealer) /\ exit' = "dealer_turn")
        /\ pc' \in {"dealer_turn", "complete_round", "finished", "panic"}
        /\ pc' = "panic" => (deck = <<>> /\ get_hand_value(dealer) < 17)

\* C34: whenever the showdown comparison is reached the dealer's hand value
\* is between 17 and 21 inclusive; the dealer never draws a card while its
\* value is 17 or more, and the dealer turn ends only by standing at 17 or
\* more or by busting.
C34_DealerStandsFrom17 ==
    [][C34_DealerStep /\ (at_showdown' => get_hand_value(dealer') \in 17..21)]_vars

\* C34 witness: the showdown is reached by a dealer that drew twice, from
\* below 17 each time, and stood.
C34_Witness ==
    /\ pc = "complete_round"
    /\ dealer_decisions = <<"Hit", "Hit", "Stand">>
    /\ Len(dealer) = 4
    /\ get_hand_value(dealer) \in 17..21

\* ------------------------------------------ a round played to its end

\* Length of the shuffled deck of SpecLive.
LiveDeckLen == 6

\* The lines a human types in SpecLive: two that parse and two that do not.
LiveInputs == {<<"h">>, <<"s", "\n">>, <<"x">>, <<>>}

\* A round about to be dealt from a deck of LiveDeckLen cards.
InitLive ==
    /\ \E bot_player \in BOOLEAN, num_players \in 0..MaxHumans :
           players = ReadyGame_new(bot_player, num_players)
    /\ hands = [i \in 1..N |-> <<>>]
    /\ dealer = <<>>
    /\ deck \in [1..LiveDeckLen -> DeckCards]
    /\ start_deck = deck
    /\ pc = "deal"
    /\ dealt = 0
    /\ turn = 0
    /\ decisions = [i \in 1..N |-> <<>>]
    /\ dealer_decisions = <<>>
    /\ results = <<>>
    /\ leftover_deck = <<>>
    /\ exit = "none"
    /\ ProbeIdle
    /\ MoneyIdle

\* Player::take_turn of the bot: no line is read.
BotTakeTurn ==
    /\ pc = "player_turns"
    /\ turn <= N
    /\ players[turn] = "bot"
    /\ PlayerTakeTurn

\* The human's turn with a line of LiveInputs typed.
HumanTypesLine == HumanReads(LiveInputs)

\* A line that parses is typed.
HumanGivesValidAction == HumanTypesLine /\ decisions' # decisions

\* The steps the program takes without reading anything.
ProgramStep ==
    \/ DealCard
    \/ HandleNaturals
    \/ PlayerHasNatural
    \/ PlayerIsBust
    \/ BotTakeTurn
    \/ CheckIfAllPlayersFinished
    \/ DealerIsBust
    \/ DealerTakeTurn
    \/ CompleteRound

NextLive ==
    \/ ProgramStep
    \/ HumanTypesLine

\* The program runs on, and a human at the prompt eventually types a line
\* that parses.
SpecLive ==
    /\ InitLive
    /\ [][NextLive]_vars
    /\ WF_vars(ProgramStep)
    /\ WF_vars(HumanGivesValidAction)

\* C35 for one step: a card added to a hand raises its raw value, and is
\* added to a hand whose raw value is at most 21.
C35_HitRaisesRawValue ==
    /\ \A i \in 1..N :
           hands'[i] # hands[i] =>
               /\ get_raw_hand_value(hands'[i]) > get_raw_hand_value(hands[i])
               /\ pc = "player_turns" => get_raw_hand_value(hands[i]) <= 21
    /\ dealer' # dealer =>
           /\ get_raw_hand_value(dealer') > get_raw_hand_value(dealer)
           /\ pc = "dealer_turn" => get_raw_hand_value(dealer) <= 21

\* C35: every round terminates with results whenever the deck does not run
\* out and each human eventually gives a valid action: every Hit strictly
\* increases the hand's raw value, so that each turn ends after a bounded
\* number of Hits, and the bot's and the dealer's turns end without input.
C35_RoundTerminates ==
    /\ [][C35_HitRaisesRawValue]_vars
    /\ <>(pc = "finished" \/ pc = "panic")
    /\ [](pc = "finished" => Len(results) = N)

\* C35 witness: a round is over with results after the human hit and stood
\* and the dealer drew a card and stood.
C35_Witness ==
    /\ pc = "finished"
    /\ Len(results) = N
    /\ N = 1
    /\ players[1] = "human"
    /\ decisions[1] = <<"Hit", "Stand">>
    /\ dealer_decisions = <<"Hit", "Stand">>

\* The money a player of SpecGame had before betting: what Player::new gave
\* it, the one round of SpecGame being the first.
pre_bet_money == unwrap(Player_new(options.betting_buyin).money)

\* The money after settlement of a player that bet b from money m.
money_after_round(m, b, result, r) ==
    CASE result = "Natural" -> m + ((r[1] * b) \div r[2])
      [] result = "Win" -> m + b
      [] result = "Standoff" -> m
      [] result = "Lose" -> m - b

\* C36 for the step that settles a round: a player holding a bet b has the
\* pre-bet money less b before it, and after it the amount the result
\* gives on the pre-bet money.
C36_SettleStep ==
    (pc = "finished" /\ pc' = "another") =>
        \A i \in 1..N :
            bet[i] # None =>
                LET b == unwrap(bet[i])
                    m == pre_bet_money
                IN  /\ money[i] = Some(m - b)
                    /\ b <= m
                    /\ money'[i] =
                           Some(money_after_round(m, b, results[i].result,
                                                  options.payout_ratio))
                    /\ results[i].result = "Standoff" => money'[i] = Some(m)
                    /\ results[i].result = "Lose" => money'[i] = Some(m - b)
                    /\ bet'[i] = None

\* C36: for a player who bet b from pre-bet money m, the money after
\* settlement is m + floor(r * b) for Natural, m + b for Win, m for Standoff
\* and m - b for Lose; over bet-setting plus settlement a Standoff is
\* money-neutral and a Lose costs exactly the bet.
C36_MoneyAfterRound == [][C36_SettleStep]_vars

\* C36 witness: a round is settled in which the human bet 1 of 2 at three to
\* two and got Natural, which pays floor(1.5) = 1 on top of the 2.
C36_Witness ==
    /\ pc = "another"
    /\ N >= 1
    /\ players[N] = "human"
    /\ options.betting_buyin = 2
    /\ options.payout_ratio = <<3, 2>>
    /\ results[N].result = "Natural"
    /\ money[N] = Some(3)
    /\ bet[N] = None

\* C37: the bot never places a bet: its bet is None in every state, so its
\* money stays at its initial value (the buy-in, or None) through any number
\* of rounds and outcomes, and it is never re-bought-in.
C37_BotNeverBets ==
    \A i \in 1..N :
        players[i] = "bot" =>
            /\ bet[i] = None
            /\ money[i] = Player_new(options.betting_buyin).money
            /\ money[i] # Some(0)

\* C37 witness: a second round begins at a table where the human's money has
\* changed and the bot's has not.
C37_Witness ==
    /\ pc = "set_bet"
    /\ call.op = "should_play_another_round"
    /\ call.result = "true"
    /\ players = <<"bot", "human">>
    /\ options.betting_buyin = 2
    /\ money[1] = Some(2)
    /\ bet[1] = None
    /\ money[2] = Some(4)

\* The hand before its last card was received.
before_hit(hand) == SubSeq(hand, 1, Len(hand) - 1)

\* C38: a Hit taken on a soft hand never busts it (a raw value of at most 11
\* plus any card is at most 21), and no two-card hand is bust; so a bot that
\* hits a soft 17 or less is never bust by that card, and no actor is bust
\* right after the deal.
C38_SoftHitNeverBusts ==
    probe_eval.done =>
        /\ Len(probe_hand) = 2 => ~probe_eval.bust
        /\ (Len(probe_hand) >= 1
            /\ is_soft_hand(get_raw_hand_value(before_hit(probe_hand)),
                            before_hit(probe_hand))) =>
               /\ get_raw_hand_value(before_hit(probe_hand)) <= 11
               /\ probe_eval.raw <= 21
               /\ probe_eval.value <= 21
               /\ ~probe_eval.bust
        /\ (Len(probe_hand) >= 1
            /\ is_soft_hand(get_raw_hand_value(before_hit(probe_hand)),
                            before_hit(probe_hand))
            /\ get_hand_value(before_hit(probe_hand)) <= 17) =>
               /\ AutoPlayer_decide_action(before_hit(probe_hand), probe_upcard) = "Hit"
               /\ ~probe_eval.bust

\* C38 witness: a soft 17 of three cards took a ten and is a hard 17.
C38_Witness ==
    /\ probe_eval.done
    /\ Len(probe_hand) = 4
    /\ is_soft_hand(get_raw_hand_value(before_hit(probe_hand)), before_hit(probe_hand))
    /\ get_hand_value(before_hit(probe_hand)) = 17
    /\ probe_hand[4].rank = "King"
    /\ probe_eval.raw = 17
    /\ probe_eval.value = 17
    /\ ~probe_eval.soft

\* C39: with zero players at the table (num_players = 0 and no bot) every
\* round, dealt from a deck that holds the dealer's two cards, ends at the
\* natural check with an empty result list: the dealer is dealt two cards
\* and takes no turn, and no settlement changes any money.
C39_EmptyTable ==
    (N = 0 /\ Len(start_deck) >= 2) =>
        /\ pc \in {"set_bet", "deal", "naturals", "finished", "another"}
        /\ dealer_decisions = <<>>
        /\ Len(dealer) <= 2
        /\ money = <<>>
        /\ bet = <<>>
        /\ pc \in {"naturals", "finished", "another"} =>
               /\ Len(dealer) = 2
               /\ dealer = <<start_deck[Len(start_deck)], start_deck[Len(start_deck) - 1]>>
               /\ deck = SubSeq(start_deck, 1, Len(start_deck) - 2)
        /\ pc \in {"finished", "another"} =>
               /\ exit = "handle_naturals"
               /\ results = <<>>
               /\ leftover_deck = deck

\* C39 witness: the round of an empty table is settled; the dealer holds two
\* cards that are no natural.
C39_Witness ==
    /\ N = 0
    /\ pc = "another"
    /\ Len(dealer) = 2
    /\ ~hand_is_natural(dealer)
    /\ exit = "handle_naturals"
    /\ results = <<>>

\* ------------------------------- round after round from a single deck

\* play_blackjack with num_decks = 1, one player and no betting, about to
\* deal its first round from the deck ReadyGame::new shuffled.
InitSingleDeck ==
    /\ players \in {ReadyGame_new(TRUE, 0), ReadyGame_new(FALSE, 1)}
    /\ options = [betting_buyin |-> 0, payout_ratio |-> <<3, 2>>, num_decks |-> 1]
    /\ hands = [i \in 1..N |-> <<>>]
    /\ dealer = <<>>
    /\ deck \in shuffle_deck(create_multideck(options.num_decks))
    /\ start_deck = deck
    /\ pc = "deal"
    /\ dealt = 0
    /\ turn = 0
    /\ decisions = [i \in 1..N |-> <<>>]
    /\ dealer_decisions = <<>>
    /\ results = <<>>
    /\ leftover_deck = <<>>
    /\ exit = "none"
    /\ money = <<>>
    /\ bet = <<>>
    /\ call = NoCall
    /\ ProbeIdle

\* The loop of play_blackjack from the results of one round to the deal of
\* the next: settle_round discards the hands, should_play_another_round
\* returns true, from_previous_round takes the leftover deck or a new
\* shuffled one and a new dealer.
NextRoundFromLeftover ==
    /\ pc = "finished"
    /\ deck' \in from_previous_round_deck(leftover_deck, options.num_decks)
    /\ start_deck' = deck'
    /\ hands' = [i \in 1..N |-> <<>>]
    /\ dealer' = <<>>
    /\ pc' = "deal"
    /\ dealt' = 0
    /\ turn' = 0
    /\ decisions' = [i \in 1..N |-> <<>>]
    /\ dealer_decisions' = <<>>
    /\ results' = <<>>
    /\ leftover_deck' = <<>>
    /\ exit' = "none"
    /\ UNCHANGED <<players, money_vars, probe_vars>>

\* The steps of play_round and the step to the next round.  With one player
\* at the table player_turns never meets a natural: the natural check ends
\* such a round, so that branch of the loop has no step here.
NextSingleDeck ==
    \/ DealCard
    \/ HandleNaturals
    \/ PlayerIsBust
    \/ PlayerTakeTurn
    \/ CheckIfAllPlayersFinished
    \/ DealerIsBust
    \/ DealerTakeTurn
    \/ CompleteRound
    \/ NextRoundFromLeftover

SpecSingleDeck == InitSingleDeck /\ [][NextSingleDeck]_vars

\* Cards taken from the deck since the round started.
cards_taken == Len(start_deck) - Len(deck)

\* C40: with num_decks = 1 and a single player, over any number of
\* consecutive rounds with the between-round reshuffle rule applied, no draw
\* finds the deck empty: every round starts with more than 40 cards and the
\* player and the dealer together never take that many.
C40_SingleDeckNeverRunsOut ==
    /\ pc # "panic"
    /\ Len(start_deck) > 40
    /\ Len(start_deck) <= STANDARD_DECK_COUNT
    /\ cards_taken = cards_in(hands) + Len(dealer)
    /\ cards_taken <= 40
    /\ Len(deck) >= 1

\* C40 witness: a round dealt from a leftover deck of 41 cards, the fewest a
\* round can start with, is over after the player and the dealer both drew.
C40_Witness ==
    /\ pc = "finished"
    /\ Len(start_deck) = 41
    /\ Len(hands[1]) >= 3
    /\ Len(dealer) >= 3

====
